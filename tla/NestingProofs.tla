--------------------------- MODULE NestingProofs ----------------------------
(***************************************************************************)
(* Proofs about Nesting: calls of the allocator that signal handlers nest, *)
(* for any slots and limits, any number of handlers and of calls they make, *)
(* when one handler runs at a time and every interrupted call is counted.  *)
(***************************************************************************)
EXTENDS Nesting, FiniteSetTheorems, SequenceTheorems, TLAPS

-----------------------------------------------------------------------------
(* The inductive invariant, which holds until a handler runs inside an     *)
(* update of deferred (torn).  Two frames of the stack matter: the one     *)
(* that runs and, when a handler does, the one it interrupted; every other *)
(* frame is a call that has ended but for the releases that wait.          *)
(***************************************************************************)
Rest == Frame("handler", "handler", None)

Handled == \E i \in 1 .. Len(stack) : stack[i].kind = "handler"

At == CHOOSE i \in 1 .. Len(stack) : stack[i].kind = "handler"

\* The interrupted frame and the running one; Rest stands for none.
U == IF Handled THEN stack[At - 1] ELSE Rest
T == IF stack = <<>> THEN Rest ELSE Top

InLock == {"take", "lock", "work", "give"}
Draining == {"deferred", "decrement", "read"}
Masked == {"lockall", "recycle", "unmask"}
Sweeping == {"mask", "lockall", "recycle", "unmask", "unsweep"}
Before == {"enter", "defer", "claim", "cache", "map", "choose", "handler"}

\* The frame's call is in the allocator and counted in depth; in locks.
Busy(f) == f.self /\ f.at \notin Draining
Locks(f) == f.at \in {"lock", "work", "give"}
Holds(f) == IF f.at = "work" THEN {LockOf(f.job)}
            ELSE IF f.at = "recycle" THEN {"region"} ELSE {}

\* What a frame is at each place.
FrameOK(f) ==
    /\ f \in FrameType
    /\ f.kind = "handler" <=> f.at = "handler"
    /\ f.at \in InLock => f.job # "none"
    /\ f.at = "enter" => ~f.self /\ f.kind \in {"alloc", "free"}
    /\ f.at = "defer" => ~f.self /\ f.kind = "free" /\ f.n < DeferredLimit
    /\ f.at \in Draining => f.self
    /\ f.at \in {"decrement", "read"} => f.n \in 1 .. DeferredLimit
    /\ f.self => f.kind \in {"alloc", "free"}
    /\ f.at = "claim" => f.kind = "free"
    /\ f.kind = "free" => f.arg \in Slots
    /\ f.at \in {"retry", "filled", "have", "nothing"} => f.kind = "alloc"
    /\ f.back = "retry" => f.kind = "alloc"
    /\ f.at \in Before => ~f.cached /\ ~f.draining
    /\ f.cached => f.kind = "alloc"
    /\ f.at = "filled" => f.cached
    /\ f.at = "have" => \A x, y \in f.got : x = y
    /\ f.at \in InLock =>
         CASE f.job = "refill" -> f.kind = "alloc" /\ f.cached
           [] f.job = "pop" -> f.kind = "alloc" /\ (f.at = "give" => \A x, y \in f.got : x = y)
           [] f.job = "retire" -> f.kind = "free"
           [] f.job = "list" -> ~f.cached /\ ~f.draining
           [] OTHER -> TRUE

\* The frame leaves the thread's cache alone: it is nested in one that uses it.
Outside(f) ==
    /\ ~f.cached /\ ~f.draining
    /\ f.at \notin Sweeping \cup {"map", "filled", "flushed", "drain", "returning",
                                  "trysweep"} \cup Draining
    /\ f.at \in InLock => f.job \in {"pop", "retire"}

StackShape ==
    /\ stack \in Seq(FrameType)
    /\ \A i \in 1 .. Len(stack) : FrameOK(stack[i])
    /\ \A i, j \in 1 .. Len(stack) :
         stack[i].kind = "handler" /\ stack[j].kind = "handler" => i = j
    /\ Handled => /\ At >= 2 /\ (Busy(U) => Len(stack) <= At + 1)
                  /\ U.self \/ U.at = "enter"
                  /\ U.at \notin Masked \cup {"decrement", "read", "map", "handler"}
    /\ \A i \in 1 .. Len(stack) - 1 :
         stack[i].at = "deferred" \/ (Handled /\ i \in {At - 1, At})
    /\ count # 0 => cache = "made" /\ \E i \in 1 .. Len(stack) : stack[i].self
    /\ Len(stack) >= 2 => /\ cache = "made"
                          /\ T.self \/ T.at \in {"enter", "defer", "handler"}
    /\ cache = "none" => avail = {} /\ rel = {}
    /\ T.self \/ T.cached => cache = "made"
    /\ T.at = "map" => cache = "none"
    /\ T.kind = "drop" => cache = "gone"

\* The counts in the thread's cache.
Counts ==
    /\ depth = (IF Busy(U) THEN 1 ELSE 0) + (IF Busy(T) THEN 1 ELSE 0)
    /\ locks = IF cache = "made"
               THEN (IF Locks(U) THEN 1 ELSE 0) + (IF Locks(T) THEN 1 ELSE 0)
               ELSE 0
    /\ Locks(U) => T.at \in {"handler", "enter", "defer"}
    /\ T.at = "defer" => Locks(U) /\ T.n = count
    /\ Busy(U) => Outside(T)
    /\ T.at = "decrement" => T.n = count
    /\ T.at = "read" => T.n = count + 1
    /\ Handled \/ count # 0 \/ T.at \in {"decrement", "read"} => signals # 0

LocksHeld ==
    /\ locked = Holds(U) \cup Holds(T)
    /\ sweeping <=> U.at \in Sweeping \/ T.at \in Sweeping
    /\ ~(U.at \in Sweeping /\ T.at \in Sweeping)
    /\ masked <=> T.at \in Masked

\* The blocks a frame has, and those of them whose word says live.
Has(f, s) ==
    \/ /\ f.kind = "free" /\ s = f.arg
       /\ \/ f.at \in {"enter", "defer", "claim", "cache", "map", "choose"}
          \/ f.at \in {"take", "lock", "work"} /\ f.job = "retire"
          \/ f.at \in InLock /\ f.job = "list"
    \/ s \in f.got /\ (f.at \in {"filled", "have"} \/ (f.at = "give" /\ f.job \in {"refill", "pop"}))
    \/ f.at = "read" /\ s = deferred[f.n - 1]

Unclaimed(f, s) ==
    \/ f.kind = "free" /\ f.at \in {"enter", "defer", "claim"} /\ s = f.arg
    \/ f.at = "read" /\ s = deferred[f.n - 1]

\* The frame gives the slots of its got, and no others, back to their region;
\* it has queued the releases and not emptied the cache of them yet.
Returns(f) == f.at = "returning" \/ (f.at \in InLock /\ f.job = "return")
Flushes(f) == f.at = "flushed" \/ (f.at = "give" /\ f.job = "flush")

Available == IF Returns(U) THEN U.got ELSE IF Returns(T) THEN T.got ELSE avail
Unflushed == IF Flushes(U) \/ Flushes(T) THEN {} ELSE rel
Entries == {deferred[i] : i \in 0 .. count - 1}

\* One of nine.
One(a, b, c, d, e, f, g, h, i) ==
    /\ a \/ b \/ c \/ d \/ e \/ f \/ g \/ h \/ i
    /\ a => ~b /\ ~c /\ ~d /\ ~e /\ ~f /\ ~g /\ ~h /\ ~i
    /\ b => ~c /\ ~d /\ ~e /\ ~f /\ ~g /\ ~h /\ ~i
    /\ c => ~d /\ ~e /\ ~f /\ ~g /\ ~h /\ ~i
    /\ d => ~e /\ ~f /\ ~g /\ ~h /\ ~i
    /\ e => ~f /\ ~g /\ ~h /\ ~i
    /\ f => ~g /\ ~h /\ ~i
    /\ g => ~h /\ ~i
    /\ h => ~i

SlotsOnce ==
    /\ \A s \in Slots :
         One(s \in held, s \in left, s \in free, s \in queued, s \in Available,
             s \in Unflushed, s \in Entries, Has(U, s), Has(T, s))
    /\ \A i, j \in 0 .. count - 1 : deferred[i] = deferred[j] => i = j
    /\ \A i \in 0 .. count - 1 : deferred[i] \in Slots
    /\ T.at = "read" => deferred[T.n - 1] \in Slots
    /\ \A s \in Slots :
         s \in live <=> s \in held \cup left \cup Entries \/ Unclaimed(U, s) \/ Unclaimed(T, s)
    /\ U.cached => avail = {} \/ U.at \in Draining \cup {"leave"}
    /\ T.cached => avail = {} \/ T.at \in Draining \cup {"leave"}

NestInv ==
    /\ NestingTypeOK /\ ~trapped
    /\ StackShape /\ Counts /\ LocksHeld /\ SlotsOnce

\* Handlers run one at a time, and only in a call that is counted.
OneAtATime == ~Uncounted /\ ~Nested

-----------------------------------------------------------------------------
(* The stack: what a step, a return and a call leave of it.                *)
(***************************************************************************)
LEMMA RestOK == FrameOK(Rest) /\ Rest.at = "handler" /\ Rest.kind = "handler" /\ ~Rest.self
                /\ ~Rest.cached /\ ~Rest.draining
  BY NestingAssumption DEF Rest, Frame, FrameOK, FrameType, Kinds, Places, Jobs, InLock, Draining,
     Before

\* A stack that is not empty has a last frame.
LEMMA StackTop ==
  ASSUME StackShape, stack # <<>>
  PROVE  /\ Len(stack) \in Nat \ {0} /\ DOMAIN stack = 1 .. Len(stack)
         /\ T = Top /\ FrameOK(T) /\ T = stack[Len(stack)]
<1>1. stack \in Seq(FrameType)
  BY DEF StackShape
<1>2. Len(stack) \in Nat \ {0} /\ DOMAIN stack = 1 .. Len(stack)
  BY <1>1
<1>3. T = Top /\ Top = stack[Len(stack)]
  BY DEF T, Top
<1> QED BY <1>2, <1>3 DEF StackShape

\* The handler's place in a stack that has one.
LEMMA OnlyHandler ==
  ASSUME NEW s, NEW k \in 1 .. Len(s), s[k].kind = "handler",
         \A i \in 1 .. Len(s) : s[i].kind = "handler" => i = k
  PROVE  (CHOOSE i \in 1 .. Len(s) : s[i].kind = "handler") = k
  OBVIOUS

LEMMA HandlerFound ==
  ASSUME StackShape, Handled
  PROVE  /\ Len(stack) \in Nat /\ At \in 2 .. Len(stack) /\ stack[At].kind = "handler"
         /\ stack # <<>> /\ U = stack[At - 1] /\ At - 1 \in 1 .. Len(stack)
         /\ \A i \in 1 .. Len(stack) : stack[i].kind = "handler" => i = At
<1>1. stack \in Seq(FrameType) /\ At >= 2
  BY DEF StackShape
<1>2. Len(stack) \in Nat
  BY <1>1
<1>3. At \in 1 .. Len(stack) /\ stack[At].kind = "handler"
  BY DEF Handled, At
<1>4. \A i \in 1 .. Len(stack) : stack[i].kind = "handler" => i = At
  BY <1>3 DEF StackShape
<1>5. U = stack[At - 1]
  BY DEF U
<1> HIDE DEF At
<1>6. Len(stack) # 0 /\ At \in 2 .. Len(stack) /\ At - 1 \in 1 .. Len(stack)
  BY <1>1, <1>2, <1>3
<1>7. stack # <<>>
  BY <1>6
<1> QED BY <1>2, <1>3, <1>4, <1>5, <1>6, <1>7

LEMMA TwoFrames ==
  ASSUME StackShape
  PROVE  /\ FrameOK(U) /\ FrameOK(T) /\ Len(stack) \in Nat /\ (stack = <<>> <=> Len(stack) = 0)
         /\ ~Handled => U = Rest
         /\ Handled => Len(stack) >= 2 /\ stack # <<>>
<1>1. stack \in Seq(FrameType) /\ \A i \in 1 .. Len(stack) : FrameOK(stack[i])
  BY DEF StackShape
<1>2. Len(stack) \in Nat /\ (stack = <<>> <=> Len(stack) = 0)
  BY <1>1
<1>3. FrameOK(T)
  BY RestOK, StackTop DEF T
<1>4. ~Handled => U = Rest
  BY DEF U
<1>5. Handled => Len(stack) >= 2 /\ stack # <<>> /\ FrameOK(U)
  <2> SUFFICES ASSUME Handled PROVE Len(stack) >= 2 /\ stack # <<>> /\ FrameOK(U)
    OBVIOUS
  <2>1. /\ At \in 2 .. Len(stack) /\ stack # <<>> /\ U = stack[At - 1]
        /\ At - 1 \in 1 .. Len(stack)
    BY HandlerFound
  <2> HIDE DEF At
  <2>2. Len(stack) >= 2
    BY <1>2, <2>1
  <2> QED BY <1>1, <2>1, <2>2
<1> QED BY <1>2, <1>3, <1>4, <1>5, RestOK

\* The running call takes a step.
LEMMA TopSteps ==
  ASSUME StackShape, stack # <<>>, Top.kind # "handler", NEW f, FrameOK(f), f.kind = Top.kind,
         Becomes(f)
  PROVE  /\ stack' \in Seq(FrameType) /\ Len(stack') = Len(stack) /\ stack' # <<>>
         /\ \A i \in 1 .. Len(stack') : FrameOK(stack'[i])
         /\ \A i \in 1 .. Len(stack) - 1 : stack'[i] = stack[i]
         /\ \A i \in 1 .. Len(stack) : stack'[i].kind = stack[i].kind
         /\ stack'[Len(stack)] = f
         /\ Handled' <=> Handled
         /\ Handled => At' = At
         /\ U' = U /\ T' = f
<1> DEFINE n == Len(stack)
<1>1. stack \in Seq(FrameType) /\ \A i \in 1..n : FrameOK(stack[i])
  BY DEF StackShape
<1>2. n \in Nat \ {0} /\ DOMAIN stack = 1..n /\ T = stack[n] /\ Top = stack[n]
  BY StackTop
<1>3. stack' = [stack EXCEPT ![n] = f] /\ f \in FrameType
  BY DEF Becomes, FrameOK
<1>4. stack' \in Seq(FrameType) /\ Len(stack') = n
  BY <1>1, <1>2, <1>3
<1>5. stack' # <<>> /\ DOMAIN stack' = 1..n
  BY <1>2, <1>4
<1>6. stack'[n] = f /\ \A i \in 1..n : i # n => stack'[i] = stack[i]
  <2> HIDE DEF n
  <2> QED BY <1>2, <1>3
<1>7. \A i \in 1..n : FrameOK(stack'[i]) /\ stack'[i].kind = stack[i].kind
  BY <1>1, <1>2, <1>6
<1> HIDE DEF n
<1>8. Handled' <=> Handled
  BY <1>4, <1>7 DEF Handled, n
<1>9. Handled => At' = At /\ U' = U
  <2> SUFFICES ASSUME Handled PROVE At' = At /\ U' = U
    OBVIOUS
  <2>1. /\ At \in 2 .. n /\ stack[At].kind = "handler" /\ U = stack[At - 1]
        /\ \A i \in 1 .. n : stack[i].kind = "handler" => i = At
    BY HandlerFound DEF n
  <2> DEFINE k == At
  <2> HIDE DEF k
  <2>2. k \in 2 .. n /\ stack[k].kind = "handler" /\ U = stack[k - 1]
        /\ \A i \in 1 .. n : stack[i].kind = "handler" => i = k
    BY <2>1 DEF k
  <2>3. k \in 1 .. n /\ k - 1 \in 1 .. n /\ k - 1 # n
    BY <1>2, <2>2
  <2>4. (CHOOSE i \in 1 .. Len(stack') : stack'[i].kind = "handler") = k
    <3>1. k \in 1 .. Len(stack') /\ stack'[k].kind = "handler"
      BY <1>4, <1>7, <2>2, <2>3
    <3>2. \A i \in 1 .. Len(stack') : stack'[i].kind = "handler" => i = k
      BY <1>4, <1>7, <2>2
    <3> QED BY <3>1, <3>2, OnlyHandler
  <2>5. At' = k
    BY <2>4 DEF At
  <2>6. U' = stack'[k - 1]
    BY <1>8, <2>5 DEF U
  <2> QED BY <1>6, <2>2, <2>3, <2>5, <2>6 DEF k
<1>10. ~Handled => U' = U
  BY <1>8 DEF U
<1>11. T' = f
  BY <1>4, <1>5, <1>6 DEF T, Top
<1>12. \A i \in 1 .. n - 1 : stack'[i] = stack[i]
  BY <1>2, <1>6
<1> QED BY <1>4, <1>5, <1>6, <1>7, <1>8, <1>9, <1>10, <1>11, <1>12 DEF n

\* The running call returns: the frame below is a handler, a call that has
\* ended but for the releases that wait, or none.
LEMMA TopReturns ==
  ASSUME StackShape, stack # <<>>, Top.kind # "handler", Return
  PROVE  /\ stack' \in Seq(FrameType) /\ Len(stack') = Len(stack) - 1
         /\ \A i \in 1 .. Len(stack') : FrameOK(stack'[i]) /\ stack'[i] = stack[i]
         /\ Handled' <=> Handled
         /\ Handled => At' = At /\ At < Len(stack)
         /\ U' = U /\ FrameOK(T')
         /\ T'.at \in {"handler", "deferred"}
         /\ Handled /\ Busy(U) => T'.at = "handler"
         /\ T'.at = "deferred" => Len(stack) >= 2 /\ T'.self
<1> DEFINE n == Len(stack)
<1>1. /\ stack \in Seq(FrameType) /\ \A i \in 1..n : FrameOK(stack[i])
      /\ \A i \in 1 .. n - 1 : stack[i].at = "deferred" \/ (Handled /\ i \in {At - 1, At})
  BY DEF StackShape
<1>2. n \in Nat \ {0} /\ DOMAIN stack = 1..n /\ Top = stack[n]
  BY StackTop
<1>3. stack' = SubSeq(stack, 1, n - 1)
  BY DEF Return
<1>4. /\ stack' \in Seq(FrameType) /\ Len(stack') = n - 1
      /\ \A i \in 1 .. n - 1 : stack'[i] = stack[i]
  BY <1>1, <1>2, <1>3, SubSeqProperties
<1>5. \A i \in 1 .. n - 1 : FrameOK(stack'[i])
  BY <1>1, <1>2, <1>4
<1> DEFINE k == At
<1>6. Handled => /\ k \in 2 .. n /\ stack[k].kind = "handler" /\ U = stack[k - 1]
                 /\ \A i \in 1 .. n : stack[i].kind = "handler" => i = k
                 /\ Busy(U) => n <= k + 1
  BY HandlerFound DEF StackShape
<1> HIDE DEF n, k
<1>7. Handled => /\ k # n /\ k < n /\ k \in 1 .. n - 1 /\ k - 1 \in 1 .. n - 1
  BY <1>2, <1>6
<1>8. Handled' <=> Handled
  <2>1. Handled => Handled'
    BY <1>4, <1>6, <1>7 DEF Handled
  <2>2. \A i \in 1 .. n - 1 : i \in 1 .. n
    BY <1>2
  <2>3. Handled' => Handled
    BY <1>4, <2>2 DEF Handled, n
  <2> QED BY <2>1, <2>3
<1>9. Handled => At' = k /\ U' = U
  <2> SUFFICES ASSUME Handled PROVE At' = k /\ U' = U
    OBVIOUS
  <2>1. (CHOOSE i \in 1 .. Len(stack') : stack'[i].kind = "handler") = k
    <3>1. k \in 1 .. Len(stack') /\ stack'[k].kind = "handler"
      BY <1>4, <1>6, <1>7
    <3>2. \A i \in 1 .. n - 1 : i \in 1 .. n
      BY <1>2
    <3>3. \A i \in 1 .. Len(stack') : stack'[i].kind = "handler" => i = k
      BY <1>4, <1>6, <3>2
    <3> QED BY <3>1, <3>3, OnlyHandler
  <2>2. At' = k
    BY <2>1 DEF At
  <2>3. U' = stack'[k - 1]
    BY <1>8, <2>2 DEF U
  <2> QED BY <1>4, <1>6, <1>7, <2>2, <2>3
<1>10. U' = U
  <2>1. ~Handled => U' = U
    BY <1>8 DEF U
  <2> QED BY <1>9, <2>1
<1>11. /\ FrameOK(T') /\ T'.at \in {"handler", "deferred"}
       /\ Handled /\ Busy(U) => T'.at = "handler"
       /\ T'.at = "deferred" => n >= 2 /\ T'.self
  <2>1. CASE n = 1
    <3>1. stack' = <<>>
      BY <1>4, <2>1
    <3>2. T' = Rest
      BY <3>1 DEF T
    <3> QED BY <3>2, RestOK
  <2>2. CASE n # 1
    <3>1. n - 1 \in 1 .. n - 1 /\ n >= 2 /\ Len(stack') # 0
      BY <1>2, <1>4, <2>2
    <3>2. stack' # <<>>
      BY <3>1
    <3>3. T' = stack'[n - 1]
      BY <1>4, <3>2 DEF T, Top
    <3>4. T' = stack[n - 1] /\ FrameOK(T')
      BY <1>4, <1>5, <3>1, <3>3
    <3>5. T'.at = "deferred" \/ (Handled /\ n - 1 = k)
      <4>1. stack[n - 1].at = "deferred" \/ (Handled /\ n - 1 \in {k - 1, k})
        BY <1>1, <3>1 DEF k
      <4>2. Handled => n - 1 # k - 1
        BY <1>2, <1>6, <1>7
      <4> QED BY <3>4, <4>1, <4>2
    <3>6. Handled /\ n - 1 = k => T'.at = "handler"
      <4>1. Handled /\ n - 1 = k => T'.kind = "handler"
        BY <1>6, <3>4
      <4> QED BY <3>4, <4>1 DEF FrameOK
    <3>7. Handled /\ Busy(U) => n - 1 = k
      BY <1>2, <1>6, <1>7
    <3>8. T'.at = "deferred" => T'.self
      BY <3>4 DEF FrameOK, Draining
    <3> QED BY <3>1, <3>4, <3>5, <3>6, <3>7, <3>8
  <2> QED BY <2>1, <2>2
<1> QED BY <1>4, <1>5, <1>7, <1>8, <1>9, <1>10, <1>11 DEF n, k

-----------------------------------------------------------------------------
(* Steps of the running call.  Is says what a frame became of t.           *)
(***************************************************************************)
Is(f, t, at, self, got, n, job, cached, draining, swept, back) ==
    /\ f \in FrameType /\ f.kind = t.kind /\ f.arg = t.arg /\ f.at = at /\ f.self = self
    /\ f.got = got /\ f.n = n /\ f.job = job /\ f.cached = cached /\ f.draining = draining
    /\ f.swept = swept /\ f.back = back

LEMMA FieldTypes ==
  ASSUME NEW t \in FrameType
  PROVE  /\ t.kind \in Kinds /\ t.at \in Places /\ t.self \in BOOLEAN /\ t.arg \in Slots \cup {None}
         /\ t.got \in SUBSET Slots /\ t.n \in Nat /\ t.job \in Jobs /\ t.cached \in BOOLEAN
         /\ t.draining \in BOOLEAN /\ t.swept \in BOOLEAN /\ t.back \in {"leave", "retry"}
  BY DEF FrameType

\* The fields of a frame after each form of step.
LEMMA BecomingAt ==
  ASSUME NEW t \in FrameType, NEW p \in Places
  PROVE  Is([t EXCEPT !.at = p], t, p, t.self, t.got, t.n, t.job, t.cached, t.draining, t.swept, t.back)
  BY DEF FrameType, Is

LEMMA BecomingJob ==
  ASSUME NEW t \in FrameType, NEW p \in Places, NEW j \in Jobs
  PROVE  Is([t EXCEPT !.at = p, !.job = j], t, p, t.self, t.got, t.n, j, t.cached, t.draining, t.swept, t.back)
  BY DEF FrameType, Is

LEMMA BecomingSelf ==
  ASSUME NEW t \in FrameType, NEW p \in Places, NEW b \in BOOLEAN
  PROVE  Is([t EXCEPT !.self = b, !.at = p], t, p, b, t.got, t.n, t.job, t.cached, t.draining, t.swept, t.back)
  BY DEF FrameType, Is

LEMMA BecomingN ==
  ASSUME NEW t \in FrameType, NEW p \in Places, NEW k \in Nat
  PROVE  Is([t EXCEPT !.at = p, !.n = k], t, p, t.self, t.got, k, t.job, t.cached, t.draining, t.swept, t.back)
  BY DEF FrameType, Is

LEMMA BecomingGot ==
  ASSUME NEW t \in FrameType, NEW p \in Places, NEW g \in SUBSET Slots
  PROVE  Is([t EXCEPT !.at = p, !.got = g], t, p, t.self, g, t.n, t.job, t.cached, t.draining, t.swept, t.back)
  BY DEF FrameType, Is

LEMMA BecomingCached ==
  ASSUME NEW t \in FrameType, NEW p \in Places, NEW b \in BOOLEAN
  PROVE  Is([t EXCEPT !.at = p, !.cached = b], t, p, t.self, t.got, t.n, t.job, b, t.draining, t.swept, t.back)
  BY DEF FrameType, Is

LEMMA BecomingSwept ==
  ASSUME NEW t \in FrameType, NEW p \in Places, NEW b \in BOOLEAN, NEW r \in {"leave", "retry"}
  PROVE  Is([t EXCEPT !.at = p, !.swept = b, !.back = r], t, p, t.self, t.got, t.n, t.job, t.cached, t.draining, b, r)
  BY DEF FrameType, Is

LEMMA BecomingBack ==
  ASSUME NEW t \in FrameType, NEW p \in Places, NEW r \in {"leave", "retry"}
  PROVE  Is([t EXCEPT !.at = p, !.back = r], t, p, t.self, t.got, t.n, t.job, t.cached, t.draining, t.swept, r)
  BY DEF FrameType, Is

LEMMA BecomingDrain ==
  ASSUME NEW t \in FrameType, NEW p \in Places, NEW b \in BOOLEAN, NEW j \in Jobs
  PROVE  Is([t EXCEPT !.draining = b, !.job = j, !.at = p], t, p, t.self, t.got, t.n, j, t.cached, b, t.swept, t.back)
  BY DEF FrameType, Is

\* The running call and what it is at.
LEMMA RunningTop ==
  ASSUME NestInv, NEW places, Running(places)
  PROVE  /\ stack # <<>> /\ T = Top /\ T = stack[Len(stack)] /\ T.at \in places
         /\ FrameOK(T) /\ FrameOK(U) /\ T \in FrameType /\ U \in FrameType
         /\ "handler" \notin places => Top.kind # "handler"
<1>1. StackShape
  BY DEF NestInv
<1>2. stack # <<>> /\ Top.at \in places
  BY DEF Running
<1>3. T = Top /\ T = stack[Len(stack)] /\ FrameOK(T) /\ FrameOK(U)
  BY <1>1, <1>2, StackTop, TwoFrames
<1>4. T.kind = "handler" => T.at = "handler"
  BY <1>3 DEF FrameOK
<1> QED BY <1>2, <1>3, <1>4 DEF FrameOK

LEMMA StepShape ==
  ASSUME NestInv, stack # <<>>, Top.kind # "handler", NEW f, FrameOK(f), f.kind = T.kind,
         Becomes(f), UNCHANGED cache, count' # 0 => count # 0, T.self => f.self,
         f.self \/ f.cached => cache = "made", Len(stack) >= 2 => f.self \/ f.at \in {"enter", "defer"},
         f.at = "map" => cache = "none", cache = "none" => avail' = {} /\ rel' = {}
  PROVE  /\ StackShape' /\ U' = U /\ T' = f /\ (Handled' <=> Handled)
         /\ Len(stack') = Len(stack) /\ stack' # <<>>
         /\ \A i \in 1 .. Len(stack') : stack'[i] \in FrameType
<1>0. StackShape /\ T = Top
  BY StackTop DEF NestInv
<1>1. /\ stack' \in Seq(FrameType) /\ Len(stack') = Len(stack) /\ stack' # <<>>
      /\ \A i \in 1 .. Len(stack') : FrameOK(stack'[i])
      /\ \A i \in 1 .. Len(stack) - 1 : stack'[i] = stack[i]
      /\ \A i \in 1 .. Len(stack) : stack'[i].kind = stack[i].kind
      /\ stack'[Len(stack)] = f
      /\ Handled' <=> Handled
      /\ Handled => At' = At
      /\ U' = U /\ T' = f
  BY <1>0, TopSteps
<1>2. Len(stack) \in Nat \ {0} /\ T = stack[Len(stack)]
  BY <1>0, StackTop
<1>3. T.kind = "drop" => cache = "gone"
  BY <1>0 DEF StackShape
<1>4. StackShape'
  <2>1. stack' \in Seq(FrameType) /\ \A i \in 1 .. Len(stack') : FrameOK(stack'[i])
    BY <1>1
  <2>2. \A i, j \in 1 .. Len(stack') :
          stack'[i].kind = "handler" /\ stack'[j].kind = "handler" => i = j
    <3>1. \A i, j \in 1 .. Len(stack) :
            stack[i].kind = "handler" /\ stack[j].kind = "handler" => i = j
      BY <1>0 DEF StackShape
    <3> QED BY <1>1, <3>1
  <2>3. Handled' => /\ At' >= 2 /\ (Busy(U') => Len(stack') <= At' + 1)
                    /\ U'.self \/ U'.at = "enter"
                    /\ U'.at \notin Masked \cup {"decrement", "read", "map", "handler"}
    <3>1. Handled => /\ At >= 2 /\ (Busy(U) => Len(stack) <= At + 1)
                     /\ U.self \/ U.at = "enter"
                     /\ U.at \notin Masked \cup {"decrement", "read", "map", "handler"}
      BY <1>0 DEF StackShape
    <3> HIDE DEF At
    <3> QED BY <1>1, <3>1
  <2>4. \A i \in 1 .. Len(stack') - 1 :
          stack'[i].at = "deferred" \/ (Handled' /\ i \in {At' - 1, At'})
    <3>1. \A i \in 1 .. Len(stack) - 1 :
            stack[i].at = "deferred" \/ (Handled /\ i \in {At - 1, At})
      BY <1>0 DEF StackShape
    <3> QED BY <1>1, <3>1
  <2>5. count' # 0 => cache' = "made" /\ \E i \in 1 .. Len(stack') : stack'[i].self
    <3> SUFFICES ASSUME count' # 0
                 PROVE  cache' = "made" /\ \E i \in 1 .. Len(stack') : stack'[i].self
      OBVIOUS
    <3>1. cache = "made"
      BY <1>0 DEF StackShape
    <3>2. PICK i \in 1 .. Len(stack) : stack[i].self
      BY <1>0 DEF StackShape
    <3>3. stack'[i].self
      <4>1. i = Len(stack) \/ i \in 1 .. Len(stack) - 1
        BY <1>2
      <4> QED BY <1>1, <1>2, <3>2, <4>1
    <3> QED BY <1>1, <3>1, <3>3
  <2>6. Len(stack') >= 2 => /\ cache' = "made"
                            /\ T'.self \/ T'.at \in {"enter", "defer", "handler"}
    BY <1>0, <1>1 DEF StackShape
  <2>7. /\ cache' = "none" => avail' = {} /\ rel' = {}
        /\ T'.self \/ T'.cached => cache' = "made"
        /\ T'.at = "map" => cache' = "none"
        /\ T'.kind = "drop" => cache' = "gone"
    BY <1>1, <1>3
  <2> QED BY <2>1, <2>2, <2>3, <2>4, <2>5, <2>6, <2>7, Zenon DEF StackShape
<1> QED BY <1>1, <1>4 DEF FrameOK

\* A step of the running call that leaves the counts, the locks or the slots
\* as they are.
LEMMA StepCounts ==
  ASSUME Counts, NEW f, U' = U, T' = f, Handled' <=> Handled,
         UNCHANGED <<cache, depth, locks, count, signals>>,
         Busy(f) <=> Busy(T), Locks(f) <=> Locks(T), f.self = T.self,
         f.at \notin {"enter", "defer", "handler", "decrement", "read"},
         T.at \notin {"enter", "defer", "handler", "decrement", "read"},
         Busy(U) => Outside(f)
  PROVE  Counts'
  BY Zenon DEF Counts

LEMMA StepLocks ==
  ASSUME LocksHeld, NEW f, U' = U, T' = f, UNCHANGED <<locked, sweeping, masked>>,
         Holds(f) = Holds(T), f.at \in Sweeping <=> T.at \in Sweeping,
         f.at \in Masked <=> T.at \in Masked
  PROVE  LocksHeld'
  BY DEF LocksHeld

LEMMA StepOnce ==
  ASSUME SlotsOnce, NEW f, U' = U, T' = f, UNCHANGED <<count, deferred>>, f.at # "read",
         \A s \in Slots : One(s \in held', s \in left', s \in free', s \in queued', s \in Available',
                             s \in Unflushed', s \in Entries, Has(U, s), Has(f, s)),
         \A s \in Slots : s \in live' <=> s \in held' \cup left' \cup Entries
                                          \/ Unclaimed(U, s) \/ Unclaimed(f, s),
         U.cached => avail' = {} \/ U.at \in Draining \cup {"leave"},
         f.cached => avail' = {} \/ f.at \in Draining \cup {"leave"}
  PROVE  SlotsOnce'
<1>1. Entries' = Entries
  BY DEF Entries
<1>2. \A s \in Slots : /\ (Has(T, s)' <=> Has(f, s)) /\ (Has(U, s)' <=> Has(U, s))
                       /\ (Unclaimed(T, s)' <=> Unclaimed(f, s))
                       /\ (Unclaimed(U, s)' <=> Unclaimed(U, s))
  BY DEF Has, Unclaimed
<1>3. \A s \in Slots :
       One(s \in held, s \in left, s \in free, s \in queued, s \in Available,
           s \in Unflushed, s \in Entries, Has(U, s), Has(T, s))'
  <2> SUFFICES ASSUME NEW s \in Slots
               PROVE  One(s \in held, s \in left, s \in free, s \in queued, s \in Available,
                          s \in Unflushed, s \in Entries, Has(U, s), Has(T, s))'
    OBVIOUS
  <2>1. One(s \in held', s \in left', s \in free', s \in queued', s \in Available',
            s \in Unflushed', s \in Entries, Has(U, s), Has(f, s))
    OBVIOUS
  <2> QED BY <1>1, <1>2, <2>1 DEF One
<1>4. \A s \in Slots :
        (s \in live <=> s \in held \cup left \cup Entries \/ Unclaimed(U, s) \/ Unclaimed(T, s))'
  BY <1>1, <1>2
<1>5. /\ \A i, j \in 0 .. count' - 1 : deferred'[i] = deferred'[j] => i = j
      /\ \A i \in 0 .. count' - 1 : deferred'[i] \in Slots
  BY DEF SlotsOnce
<1> QED BY <1>3, <1>4, <1>5, Zenon DEF SlotsOnce

LEMMA StepSlots ==
  ASSUME SlotsOnce, NEW f, U' = U, T' = f, UNCHANGED <<count, deferred, held, left, free, queued, live>>,
         UNCHANGED <<avail, rel>>, f.at # "read",
         \A s \in Slots : (Has(f, s) <=> Has(T, s)) /\ (Unclaimed(f, s) <=> Unclaimed(T, s)),
         Returns(f) <=> Returns(T), Returns(T) => f.got = T.got,
         (Flushes(f) <=> Flushes(T)) \/ rel = {},
         f.cached => avail = {} \/ f.at \in Draining \cup {"leave"}
  PROVE  SlotsOnce'
<1>3. Available' = Available
  BY DEF Available
<1>4. Unflushed' = Unflushed
  BY DEF Unflushed
<1>1. ASSUME NEW s \in Slots
      PROVE  One(s \in held', s \in left', s \in free', s \in queued', s \in Available',
                 s \in Unflushed', s \in Entries, Has(U, s), Has(f, s))
  <2>1. One(s \in held, s \in left, s \in free, s \in queued, s \in Available,
            s \in Unflushed, s \in Entries, Has(U, s), Has(T, s))
    BY DEF SlotsOnce
  <2> QED BY <1>3, <1>4, <2>1 DEF One
<1>2. \A s \in Slots : s \in live' <=> s \in held' \cup left' \cup Entries
                                        \/ Unclaimed(U, s) \/ Unclaimed(f, s)
  BY DEF SlotsOnce
<1>5. /\ U.cached => avail' = {} \/ U.at \in Draining \cup {"leave"}
      /\ f.cached => avail' = {} \/ f.at \in Draining \cup {"leave"}
  BY DEF SlotsOnce
<1> QED BY <1>1, <1>2, <1>5, StepOnce

\* A step that changes nothing else.
LEMMA StepMoves ==
  ASSUME NestInv, Moves, NEW f, stack # <<>>, Top.kind # "handler", FrameOK(f), f.kind = T.kind,
         Becomes(f), f.self = T.self, f.at \notin Draining \cup Masked \cup {"enter", "defer", "handler"},
         T.at \notin Draining \cup Masked \cup {"enter", "defer", "handler"},
         f.at = "map" => cache = "none", f.cached => cache = "made",
         Locks(f) <=> Locks(T), Holds(f) = Holds(T),
         f.at \in Sweeping <=> T.at \in Sweeping,
         Busy(U) => Outside(f),
         \A s \in Slots : (Has(f, s) <=> Has(T, s)) /\ (Unclaimed(f, s) <=> Unclaimed(T, s)),
         Returns(f) <=> Returns(T), Returns(T) => f.got = T.got,
         (Flushes(f) <=> Flushes(T)) \/ rel = {},
         f.cached => avail = {} \/ f.at \in Draining \cup {"leave"}
  PROVE  NestInv'
<1>0. NestingTypeOK /\ ~trapped /\ StackShape /\ Counts /\ LocksHeld /\ SlotsOnce
  BY DEF NestInv
<1>1. /\ UNCHANGED <<cache, avail, rel, depth, locks, count, deferred, free, queued, live>>
      /\ UNCHANGED <<locked, sweeping, masked, signals, held, left, trapped, torn>>
  BY DEF Moves, cacheVars, nestVars, deferVars, heapVars, lockVars, progVars
<1>2. /\ StackShape' /\ U' = U /\ T' = f /\ (Handled' <=> Handled)
      /\ Len(stack') = Len(stack) /\ stack' # <<>>
      /\ \A i \in 1 .. Len(stack') : stack'[i] \in FrameType
  <2>1. f.self \/ f.cached => cache = "made"
    BY <1>0 DEF StackShape
  <2>2. cache = "none" => avail' = {} /\ rel' = {}
    BY <1>0, <1>1 DEF StackShape
  <2>3. Len(stack) \in Nat
    BY <1>0, TwoFrames
  <2>4. Len(stack) >= 2 => f.self \/ f.at \in {"enter", "defer"}
    BY <1>0, <2>3 DEF StackShape
  <2>5. cache' = cache /\ (count' # 0 => count # 0) /\ (T.self => f.self)
    BY <1>1
  <2> QED BY <2>1, <2>2, <2>4, <2>5, StepShape
<1>3. NestingTypeOK' /\ ~trapped'
  BY <1>0, <1>1, <1>2 DEF NestingTypeOK
<1>4. Counts'
  <2>1. Busy(f) <=> Busy(T)
    BY DEF Busy
  <2> QED BY <1>0, <1>1, <1>2, <2>1, StepCounts DEF Draining
<1>5. LocksHeld'
  BY <1>0, <1>1, <1>2, StepLocks
<1>6. SlotsOnce'
  <2>1. f.at # "read"
    BY DEF Draining
  <2> QED BY <1>0, <1>1, <1>2, <2>1, StepSlots
<1> QED BY <1>2, <1>3, <1>4, <1>5, <1>6 DEF NestInv

\* What a running call knows of the frame it interrupted, if any.
LEMMA Below ==
  ASSUME NestInv, T.at \notin {"enter", "defer", "handler"}
  PROVE  /\ Len(stack) >= 2 => T.self
         /\ T.self => cache = "made"
         /\ ~T.self => U = Rest /\ ~Busy(U)
         /\ Busy(U) => Outside(T)
         /\ ~Locks(U)
         /\ Cached /\ T.at \notin Draining => ~Busy(U)
         /\ Holds(U) = {}
<1>0. StackShape /\ Counts /\ FrameOK(U) /\ FrameOK(T)
  BY TwoFrames DEF NestInv
<1>1. Len(stack) \in Nat /\ (~Handled => U = Rest) /\ (Handled => Len(stack) >= 2)
  BY <1>0, TwoFrames
<1>2. Len(stack) >= 2 => T.self
  BY <1>0 DEF StackShape
<1>3. T.self => cache = "made"
  BY <1>0 DEF StackShape
<1>4. ~T.self => U = Rest /\ ~Busy(U)
  <2> DEFINE n == Len(stack)
  <2>1. n \in Nat /\ (n >= 2 => T.self) /\ (Handled => n >= 2)
    BY <1>1, <1>2
  <2> HIDE DEF n
  <2>2. ~T.self => ~Handled
    BY <2>1
  <2>3. ~T.self => U = Rest
    BY <1>1, <2>2
  <2>4. ~Busy(Rest)
    BY RestOK DEF Busy
  <2> QED BY <2>3, <2>4
<1>5. Cached /\ T.at \notin Draining => ~Busy(U)
  BY <1>0, <1>4 DEF Counts, Cached, Busy
<1>6. ~Locks(U) /\ (Busy(U) => Outside(T))
  BY <1>0 DEF Counts
<1>7. U.at # "recycle"
  BY <1>0, <1>1, RestOK DEF StackShape, Masked
<1>8. Holds(U) = {}
  BY <1>6, <1>7 DEF Holds, Locks
<1> QED BY <1>2, <1>3, <1>4, <1>5, <1>6, <1>8

LEMMA FindCacheStep ==
  ASSUME NestInv, FindCache
  PROVE  NestInv'
<1> DEFINE p == IF cache = "none" THEN "map" ELSE "choose"
           f == [Top EXCEPT !.at = p]
<1>1. /\ stack # <<>> /\ T = Top /\ T.at = "cache" /\ Top.kind # "handler"
      /\ FrameOK(T) /\ T \in FrameType
  BY RunningTop DEF FindCache
<1>2. Becomes(f) /\ Moves /\ p \in Places /\ p \in {"map", "choose"} /\ (p = "map" => cache = "none")
  BY DEF FindCache, Go, Places
<1>3. Is(f, T, p, T.self, T.got, T.n, T.job, T.cached, T.draining, T.swept, T.back)
  BY <1>1, <1>2, BecomingAt
<1> HIDE DEF p, f
<1>4. FrameOK(f)
  BY <1>1, <1>2, <1>3 DEF FrameOK, Is, InLock, Draining, Before
<1>5. (Busy(U) => Outside(f)) /\ ~f.cached
  BY <1>1, <1>2, <1>3, Below DEF Outside, Is, InLock, Draining, Sweeping, FrameOK, Before
<1> QED BY <1>1, <1>2, <1>3, <1>4, <1>5, StepMoves
        DEF Is, Draining, Masked, InLock, Sweeping, Locks, Holds, Has, Unclaimed, Returns, Flushes,
            FrameOK, Before

LEMMA MapFailsStep ==
  ASSUME NestInv, MakeCache, Go("choose"), Moves
  PROVE  NestInv'
<1> DEFINE f == [Top EXCEPT !.at = "choose"]
<1>1. /\ stack # <<>> /\ T = Top /\ T.at = "map" /\ Top.kind # "handler"
      /\ FrameOK(T) /\ T \in FrameType
  BY RunningTop DEF MakeCache
<1>2. Becomes(f) /\ Moves /\ "choose" \in Places
  BY DEF MakeCache, Go, Places
<1>3. Is(f, T, "choose", T.self, T.got, T.n, T.job, T.cached, T.draining, T.swept, T.back)
  BY <1>1, <1>2, FieldTypes, BecomingAt
<1> HIDE DEF f
<1>4. FrameOK(f)
  BY <1>1, <1>2, <1>3 DEF FrameOK, Is, InLock, Draining, Before
<1>5. /\ Busy(U) => Outside(f)
      /\ f.cached => (avail = {} \/ f.at = "leave") /\ cache = "made"
  BY <1>1, <1>2, <1>3, Below
     DEF Outside, Is, InLock, Draining, Sweeping, NestInv, SlotsOnce, StackShape, Cached, OwnCache
<1> QED BY <1>1, <1>2, <1>3, <1>4, <1>5, StepMoves
        DEF Is, Draining, Masked, InLock, Sweeping, Locks, Holds, Has, Unclaimed, Returns, Flushes,
            FrameOK, Before

LEMMA ChooseAllocStep ==
  ASSUME NestInv, ChooseAlloc
  PROVE  NestInv'
<1> DEFINE f == [Top EXCEPT !.at = "retry", !.cached = Cached]
<1>1. /\ stack # <<>> /\ T = Top /\ T.at = "choose" /\ Top.kind # "handler"
      /\ FrameOK(T) /\ T \in FrameType
  BY RunningTop DEF ChooseAlloc
<1>2. Becomes(f) /\ Moves /\ "retry" \in Places /\ T.kind = "alloc" /\ (Cached => avail = {}) /\ Cached \in BOOLEAN
  BY <1>1, Zenon DEF ChooseAlloc, Places, Cached, OwnCache
<1>3. Is(f, T, "retry", T.self, T.got, T.n, T.job, Cached, T.draining, T.swept, T.back)
  BY <1>1, <1>2, FieldTypes, BecomingCached
<1> HIDE DEF f
<1>4. FrameOK(f)
  BY <1>1, <1>2, <1>3 DEF FrameOK, Is, InLock, Draining, Before
<1>5. /\ Busy(U) => Outside(f)
      /\ f.cached => (avail = {} \/ f.at = "leave") /\ cache = "made"
  BY <1>1, <1>2, <1>3, Below
     DEF Outside, Is, InLock, Draining, Sweeping, NestInv, SlotsOnce, StackShape, Cached, OwnCache
<1> QED BY <1>1, <1>2, <1>3, <1>4, <1>5, StepMoves
        DEF Is, Draining, Masked, InLock, Sweeping, Locks, Holds, Has, Unclaimed, Returns, Flushes,
            FrameOK, Before

LEMMA PopClassStep ==
  ASSUME NestInv, PopClass
  PROVE  NestInv'
<1> DEFINE j == IF Top.cached THEN "refill" ELSE "pop"
           f == [Top EXCEPT !.at = "take", !.job = j]
<1>1. /\ stack # <<>> /\ T = Top /\ T.at = "retry" /\ Top.kind # "handler"
      /\ FrameOK(T) /\ T \in FrameType
  BY RunningTop DEF PopClass
<1>2. Becomes(f) /\ Moves /\ "take" \in Places /\ j \in Jobs
  BY <1>1 DEF PopClass, Section, Places, Jobs
<1>3. Is(f, T, "take", T.self, T.got, T.n, j, T.cached, T.draining, T.swept, T.back)
  BY <1>1, <1>2, FieldTypes, BecomingJob
<1> HIDE DEF f
<1>4. FrameOK(f)
  BY <1>1, <1>2, <1>3 DEF FrameOK, Is, InLock, Draining, Before
<1>5. /\ Busy(U) => Outside(f)
      /\ f.cached => (avail = {} \/ f.at = "leave") /\ cache = "made"
  BY <1>1, <1>2, <1>3, Below
     DEF Outside, Is, InLock, Draining, Sweeping, NestInv, SlotsOnce, StackShape, Cached, OwnCache
<1> QED BY <1>1, <1>2, <1>3, <1>4, <1>5, StepMoves
        DEF Is, Draining, Masked, InLock, Sweeping, Locks, Holds, Has, Unclaimed, Returns, Flushes,
            FrameOK, Before

LEMMA NoRefillStep ==
  ASSUME NestInv, Refilled, Go("nothing"), Moves, Top.got = {}
  PROVE  NestInv'
<1> DEFINE f == [Top EXCEPT !.at = "nothing"]
<1>1. /\ stack # <<>> /\ T = Top /\ T.at = "filled" /\ Top.kind # "handler"
      /\ FrameOK(T) /\ T \in FrameType
  BY RunningTop DEF Refilled
<1>2. Becomes(f) /\ Moves /\ "nothing" \in Places
  BY DEF Refilled, Go, Places
<1>3. Is(f, T, "nothing", T.self, T.got, T.n, T.job, T.cached, T.draining, T.swept, T.back)
  BY <1>1, <1>2, FieldTypes, BecomingAt
<1> HIDE DEF f
<1>4. FrameOK(f)
  BY <1>1, <1>2, <1>3 DEF FrameOK, Is, InLock, Draining, Before
<1>5. /\ Busy(U) => Outside(f)
      /\ f.cached => (avail = {} \/ f.at = "leave") /\ cache = "made"
  BY <1>1, <1>2, <1>3, Below
     DEF Outside, Is, InLock, Draining, Sweeping, NestInv, SlotsOnce, StackShape, Cached, OwnCache
<1> QED BY <1>1, <1>2, <1>3, <1>4, <1>5, StepMoves
        DEF Is, Draining, Masked, InLock, Sweeping, Locks, Holds, Has, Unclaimed, Returns, Flushes,
            FrameOK, Before

LEMMA NoSlotStep ==
  ASSUME NestInv, TakeUncached, Go("nothing"), Moves, Top.got = {}
  PROVE  NestInv'
<1> DEFINE f == [Top EXCEPT !.at = "nothing"]
<1>1. /\ stack # <<>> /\ T = Top /\ T.at = "have" /\ Top.kind # "handler"
      /\ FrameOK(T) /\ T \in FrameType
  BY RunningTop DEF TakeUncached
<1>2. Becomes(f) /\ Moves /\ "nothing" \in Places
  BY DEF TakeUncached, Go, Places
<1>3. Is(f, T, "nothing", T.self, T.got, T.n, T.job, T.cached, T.draining, T.swept, T.back)
  BY <1>1, <1>2, FieldTypes, BecomingAt
<1> HIDE DEF f
<1>4. FrameOK(f)
  BY <1>1, <1>2, <1>3 DEF FrameOK, Is, InLock, Draining, Before
<1>5. /\ Busy(U) => Outside(f)
      /\ f.cached => (avail = {} \/ f.at = "leave") /\ cache = "made"
  BY <1>1, <1>2, <1>3, Below
     DEF Outside, Is, InLock, Draining, Sweeping, NestInv, SlotsOnce, StackShape, Cached, OwnCache
<1> QED BY <1>1, <1>2, <1>3, <1>4, <1>5, StepMoves
        DEF Is, Draining, Masked, InLock, Sweeping, Locks, Holds, Has, Unclaimed, Returns, Flushes,
            FrameOK, Before

LEMMA SweepOnceStep ==
  ASSUME NestInv, Nothing, ~Top.swept
  PROVE  NestInv'
<1> DEFINE f == [Top EXCEPT !.at = "sweep", !.swept = TRUE, !.back = "retry"]
<1>1. /\ stack # <<>> /\ T = Top /\ T.at = "nothing" /\ Top.kind # "handler"
      /\ FrameOK(T) /\ T \in FrameType
  BY RunningTop DEF Nothing
<1>2. Becomes(f) /\ Moves /\ "sweep" \in Places
  BY DEF Nothing, Places
<1>3. Is(f, T, "sweep", T.self, T.got, T.n, T.job, T.cached, T.draining, TRUE, "retry")
  BY <1>1, <1>2, FieldTypes, BecomingSwept
<1> HIDE DEF f
<1>4. FrameOK(f)
  BY <1>1, <1>2, <1>3 DEF FrameOK, Is, InLock, Draining, Before
<1>5. /\ Busy(U) => Outside(f)
      /\ f.cached => (avail = {} \/ f.at = "leave") /\ cache = "made"
  BY <1>1, <1>2, <1>3, Below
     DEF Outside, Is, InLock, Draining, Sweeping, NestInv, SlotsOnce, StackShape, Cached, OwnCache
<1> QED BY <1>1, <1>2, <1>3, <1>4, <1>5, StepMoves
        DEF Is, Draining, Masked, InLock, Sweeping, Locks, Holds, Has, Unclaimed, Returns, Flushes,
            FrameOK, Before

LEMMA GiveUpStep ==
  ASSUME NestInv, Nothing, Top.swept
  PROVE  NestInv'
<1> DEFINE f == [Top EXCEPT !.at = "leave"]
<1>1. /\ stack # <<>> /\ T = Top /\ T.at = "nothing" /\ Top.kind # "handler"
      /\ FrameOK(T) /\ T \in FrameType
  BY RunningTop DEF Nothing
<1>2. Becomes(f) /\ Moves /\ "leave" \in Places
  BY DEF Nothing, Go, Places
<1>3. Is(f, T, "leave", T.self, T.got, T.n, T.job, T.cached, T.draining, T.swept, T.back)
  BY <1>1, <1>2, FieldTypes, BecomingAt
<1> HIDE DEF f
<1>4. FrameOK(f)
  BY <1>1, <1>2, <1>3 DEF FrameOK, Is, InLock, Draining, Before
<1>5. /\ Busy(U) => Outside(f)
      /\ f.cached => (avail = {} \/ f.at = "leave") /\ cache = "made"
  BY <1>1, <1>2, <1>3, Below
     DEF Outside, Is, InLock, Draining, Sweeping, NestInv, SlotsOnce, StackShape, Cached, OwnCache
<1> QED BY <1>1, <1>2, <1>3, <1>4, <1>5, StepMoves
        DEF Is, Draining, Masked, InLock, Sweeping, Locks, Holds, Has, Unclaimed, Returns, Flushes,
            FrameOK, Before

LEMMA RetireStep ==
  ASSUME NestInv, ChooseFree, ~Cached, Moves
  PROVE  NestInv'
<1> DEFINE f == [Top EXCEPT !.at = "take", !.job = "retire"]
<1>1. /\ stack # <<>> /\ T = Top /\ T.at = "choose" /\ Top.kind # "handler"
      /\ FrameOK(T) /\ T \in FrameType
  BY RunningTop DEF ChooseFree
<1>2. Becomes(f) /\ Moves /\ "take" \in Places /\ "retire" \in Jobs /\ T.kind = "free"
  BY <1>1 DEF ChooseFree, Section, Places, Jobs
<1>3. Is(f, T, "take", T.self, T.got, T.n, "retire", T.cached, T.draining, T.swept, T.back)
  BY <1>1, <1>2, FieldTypes, BecomingJob
<1> HIDE DEF f
<1>4. FrameOK(f)
  BY <1>1, <1>2, <1>3 DEF FrameOK, Is, InLock, Draining, Before
<1>5. /\ Busy(U) => Outside(f)
      /\ f.cached => (avail = {} \/ f.at = "leave") /\ cache = "made"
  BY <1>1, <1>2, <1>3, Below
     DEF Outside, Is, InLock, Draining, Sweeping, NestInv, SlotsOnce, StackShape, Cached, OwnCache
<1> QED BY <1>1, <1>2, <1>3, <1>4, <1>5, StepMoves
        DEF Is, Draining, Masked, InLock, Sweeping, Locks, Holds, Has, Unclaimed, Returns, Flushes,
            FrameOK, Before

LEMMA NoBudgetStep ==
  ASSUME NestInv, Running({"budget"}), Go("leave"), Moves
  PROVE  NestInv'
<1> DEFINE f == [Top EXCEPT !.at = "leave"]
<1>1. /\ stack # <<>> /\ T = Top /\ T.at = "budget" /\ Top.kind # "handler"
      /\ FrameOK(T) /\ T \in FrameType
  BY RunningTop
<1>2. Becomes(f) /\ Moves /\ "leave" \in Places
  BY DEF Go, Places
<1>3. Is(f, T, "leave", T.self, T.got, T.n, T.job, T.cached, T.draining, T.swept, T.back)
  BY <1>1, <1>2, FieldTypes, BecomingAt
<1> HIDE DEF f
<1>4. FrameOK(f)
  BY <1>1, <1>2, <1>3 DEF FrameOK, Is, InLock, Draining, Before
<1>5. /\ Busy(U) => Outside(f)
      /\ f.cached => (avail = {} \/ f.at = "leave") /\ cache = "made"
  BY <1>1, <1>2, <1>3, Below
     DEF Outside, Is, InLock, Draining, Sweeping, NestInv, SlotsOnce, StackShape, Cached, OwnCache
<1> QED BY <1>1, <1>2, <1>3, <1>4, <1>5, StepMoves
        DEF Is, Draining, Masked, InLock, Sweeping, Locks, Holds, Has, Unclaimed, Returns, Flushes,
            FrameOK, Before

LEMMA OverBudgetStep ==
  ASSUME NestInv, Running({"budget"}), Becomes([Top EXCEPT !.at = "sweep", !.back = "leave"]), Moves
  PROVE  NestInv'
<1> DEFINE f == [Top EXCEPT !.at = "sweep", !.back = "leave"]
<1>1. /\ stack # <<>> /\ T = Top /\ T.at = "budget" /\ Top.kind # "handler"
      /\ FrameOK(T) /\ T \in FrameType
  BY RunningTop
<1>2. Becomes(f) /\ Moves /\ "sweep" \in Places
  BY DEF Places
<1>3. Is(f, T, "sweep", T.self, T.got, T.n, T.job, T.cached, T.draining, T.swept, "leave")
  BY <1>1, <1>2, FieldTypes, BecomingBack
<1> HIDE DEF f
<1>4. FrameOK(f)
  BY <1>1, <1>2, <1>3 DEF FrameOK, Is, InLock, Draining, Before
<1>5. /\ Busy(U) => Outside(f)
      /\ f.cached => (avail = {} \/ f.at = "leave") /\ cache = "made"
  BY <1>1, <1>2, <1>3, Below
     DEF Outside, Is, InLock, Draining, Sweeping, NestInv, SlotsOnce, StackShape, Cached, OwnCache
<1> QED BY <1>1, <1>2, <1>3, <1>4, <1>5, StepMoves
        DEF Is, Draining, Masked, InLock, Sweeping, Locks, Holds, Has, Unclaimed, Returns, Flushes,
            FrameOK, Before

LEMMA DrainStep ==
  ASSUME NestInv, Drain
  PROVE  NestInv'
<1> DEFINE p == IF rel = {} THEN "flushed" ELSE "take"
           f == [Top EXCEPT !.draining = TRUE, !.job = "flush", !.at = p]
<1>1. /\ stack # <<>> /\ T = Top /\ T.at = "drain" /\ Top.kind # "handler"
      /\ FrameOK(T) /\ T \in FrameType
  BY RunningTop DEF Drain
<1>2. Becomes(f) /\ Moves /\ p \in Places /\ p \in {"take", "flushed"} /\ (p = "flushed" => rel = {})
      /\ "flush" \in Jobs
  BY DEF Drain, Places, Jobs
<1>3. Is(f, T, p, T.self, T.got, T.n, "flush", T.cached, TRUE, T.swept, T.back)
  BY <1>1, <1>2, FieldTypes, BecomingDrain
<1> HIDE DEF p, f
<1>4. FrameOK(f)
  BY <1>1, <1>2, <1>3 DEF FrameOK, Is, InLock, Draining, Before
<1>5. /\ Busy(U) => Outside(f)
      /\ f.cached => (avail = {} \/ f.at = "leave") /\ cache = "made"
  BY <1>1, <1>2, <1>3, Below
     DEF Outside, Is, InLock, Draining, Sweeping, NestInv, SlotsOnce, StackShape, Cached, OwnCache
<1> QED BY <1>1, <1>2, <1>3, <1>4, <1>5, StepMoves
        DEF Is, Draining, Masked, InLock, Sweeping, Locks, Holds, Has, Unclaimed, Returns, Flushes,
            FrameOK, Before

LEMMA SweepStep ==
  ASSUME NestInv, Sweep
  PROVE  NestInv'
<1> DEFINE p == IF ~OwnCache THEN "trysweep" ELSE IF depth > 1 THEN Top.back ELSE "drain"
           f == [Top EXCEPT !.at = p]
<1>1. /\ stack # <<>> /\ T = Top /\ T.at = "sweep" /\ Top.kind # "handler"
      /\ FrameOK(T) /\ T \in FrameType
  BY RunningTop DEF Sweep
<1>2. Becomes(f) /\ Moves /\ p \in Places /\ p \in {"trysweep", "drain", T.back} /\ T.back \in {"leave", "retry"}
      /\ (p # T.back => ~Busy(U))
  <2>1. Becomes(f) /\ Moves
    BY DEF Sweep, Go
  <2>2. T.back \in {"leave", "retry"} /\ p \in {"trysweep", "drain", T.back}
    BY <1>1, FieldTypes
  <2>3. ASSUME p # T.back, Busy(U) PROVE FALSE
    <3>1. T.self /\ cache = "made" /\ Busy(T)
      BY <1>1, <2>3, Below DEF Busy, Draining
    <3>2. depth = 2
      BY <2>3, <3>1 DEF NestInv, Counts
    <3> QED BY <1>1, <2>3, <3>1, <3>2 DEF OwnCache
  <2> QED BY <2>1, <2>2, <2>3 DEF Places
<1>3. Is(f, T, p, T.self, T.got, T.n, T.job, T.cached, T.draining, T.swept, T.back)
  BY <1>1, <1>2, FieldTypes, BecomingAt
<1> HIDE DEF p, f
<1>4. FrameOK(f)
  BY <1>1, <1>2, <1>3 DEF FrameOK, Is, InLock, Draining, Before
<1>5. /\ Busy(U) => Outside(f)
      /\ f.cached => (avail = {} \/ f.at = "leave") /\ cache = "made"
  BY <1>1, <1>2, <1>3, Below
     DEF Outside, Is, InLock, Draining, Sweeping, NestInv, SlotsOnce, StackShape, Cached, OwnCache
<1> QED BY <1>1, <1>2, <1>3, <1>4, <1>5, StepMoves
        DEF Is, Draining, Masked, InLock, Sweeping, Locks, Holds, Has, Unclaimed, Returns, Flushes,
            FrameOK, Before

LEMMA NoSweepStep ==
  ASSUME NestInv, TrySweep, Go(Top.back), Moves
  PROVE  NestInv'
<1> DEFINE f == [Top EXCEPT !.at = T.back]
<1>1. /\ stack # <<>> /\ T = Top /\ T.at = "trysweep" /\ Top.kind # "handler"
      /\ FrameOK(T) /\ T \in FrameType
  BY RunningTop DEF TrySweep
<1>2. Becomes(f) /\ Moves /\ T.back \in Places /\ T.back \in {"leave", "retry"}
  BY <1>1, FieldTypes DEF TrySweep, Go, Places
<1>3. Is(f, T, T.back, T.self, T.got, T.n, T.job, T.cached, T.draining, T.swept, T.back)
  BY <1>1, <1>2, FieldTypes, BecomingAt
<1> HIDE DEF f
<1>4. FrameOK(f)
  BY <1>1, <1>2, <1>3 DEF FrameOK, Is, InLock, Draining, Before
<1>5. /\ Busy(U) => Outside(f)
      /\ f.cached => (avail = {} \/ f.at = "leave") /\ cache = "made"
  BY <1>1, <1>2, <1>3, Below
     DEF Outside, Is, InLock, Draining, Sweeping, NestInv, SlotsOnce, StackShape, Cached, OwnCache
<1> QED BY <1>1, <1>2, <1>3, <1>4, <1>5, StepMoves
        DEF Is, Draining, Masked, InLock, Sweeping, Locks, Holds, Has, Unclaimed, Returns, Flushes,
            FrameOK, Before

-----------------------------------------------------------------------------
(* Steps that change the counts or the locks.                              *)
(***************************************************************************)
\* Where a call goes from its critical section.
AfterGive(t) ==
    CASE t.job = "list" /\ t.kind = "drop" -> "leave"
      [] t.job = "list" /\ t.kind # "drop" -> "choose"
      [] t.job = "refill" -> "filled"
      [] t.job = "pop" -> "have"
      [] t.job = "flush" -> "flushed"
      [] t.job = "retire" -> "budget"
      [] t.job = "return" -> "returning"

LEMMA EnterStep ==
  ASSUME NestInv, Enter
  PROVE  NestInv'
<1> DEFINE p == IF Top.kind = "alloc" THEN "cache" ELSE "claim"
           f == [Top EXCEPT !.self = OwnCache, !.at = p]
<1>0. NestingTypeOK /\ ~trapped /\ StackShape /\ Counts /\ LocksHeld /\ SlotsOnce
  BY DEF NestInv
<1>1. /\ stack # <<>> /\ T = Top /\ T.at = "enter" /\ Top.kind # "handler"
      /\ FrameOK(T) /\ T \in FrameType /\ U \in FrameType
  BY RunningTop DEF Enter
<1>2. /\ Becomes(f)
      /\ UNCHANGED <<cache, avail, rel, locks, count, deferred, free, queued, live, locked, sweeping, masked, signals, held, left, trapped, torn>>
      /\ p \in Places /\ p = (IF T.kind = "alloc" THEN "cache" ELSE "claim") /\ OwnCache \in BOOLEAN
      /\ ~Refused /\ depth' = IF OwnCache THEN depth + 1 ELSE depth
  BY <1>1 DEF Enter, Places, OwnCache, cacheVars, nestVars, deferVars, heapVars, lockVars, progVars
<1>3. Is(f, T, p, OwnCache, T.got, T.n, T.job, T.cached, T.draining, T.swept, T.back)
  BY <1>1, <1>2, FieldTypes, BecomingSelf
<1> HIDE DEF p, f
<1>4. FrameOK(f)
  BY <1>1, <1>2, <1>3 DEF FrameOK, Is, InLock, Draining, Before
<1>5. /\ StackShape' /\ U' = U /\ T' = f /\ (Handled' <=> Handled) /\ Len(stack') = Len(stack)
      /\ \A i \in 1 .. Len(stack') : stack'[i] \in FrameType
  <2>1. /\ f.kind = T.kind /\ (f.self \/ f.cached => cache = "made")
        /\ Len(stack) >= 2 => f.self \/ f.at \in {"enter", "defer"}
        /\ f.at = "map" => cache = "none"
        /\ T.self => f.self
        /\ cache = "none" => avail' = {} /\ rel' = {}
    BY <1>0, <1>1, <1>2, <1>3 DEF Is, StackShape, OwnCache
  <2> QED BY <1>1, <1>2, <1>4, <2>1, StepShape
<1>6. NestingTypeOK' /\ ~trapped'
  BY <1>0, <1>1, <1>2, <1>5 DEF NestingTypeOK
<1>7. Counts'
  <2>1. ~Locks(U)
    <3> SUFFICES ASSUME Locks(U) PROVE Refused
      BY <1>2
    <3>1. Handled
      BY <1>0, TwoFrames, RestOK DEF Locks
    <3>2. cache = "made" /\ U.self
      BY <1>0, <3>1, TwoFrames DEF StackShape, Locks
    <3>3. Busy(U)
      BY <3>2 DEF Busy, Locks, Draining
    <3>4. depth \in Nat \ {0} /\ locks \in Nat \ {0}
      BY <1>0, <3>2, <3>3 DEF Counts
    <3> QED BY <3>2, <3>4 DEF Refused, OwnCache
  <2>2. Busy(U) => Outside(f)
    BY <1>1, <1>2, <1>3 DEF Outside, Is, InLock, Draining, Sweeping, FrameOK, Before
  <2>3. ~Busy(T) /\ (Busy(f) <=> OwnCache) /\ ~Locks(T) /\ ~Locks(f) /\ f.self = OwnCache
    BY <1>1, <1>2, <1>3 DEF Busy, Locks, Is, FrameOK, Draining
  <2>4. f.at \in {"cache", "claim"}
    BY <1>2, <1>3 DEF Is
  <2>5. CASE cache = "made"
    <3>1. depth' = depth + 1 /\ locks' = locks /\ Busy(f) /\ f.self /\ cache' = "made"
      BY <1>2, <2>3, <2>5 DEF OwnCache
    <3>2. depth = (IF Busy(U) THEN 1 ELSE 0) /\ locks = 0
      BY <1>0, <2>1, <2>3, <2>5 DEF Counts
    <3>3. /\ depth' = (IF Busy(U') THEN 1 ELSE 0) + (IF Busy(T') THEN 1 ELSE 0)
          /\ locks' = (IF Locks(U') THEN 1 ELSE 0) + (IF Locks(T') THEN 1 ELSE 0)
      BY <1>5, <2>1, <2>3, <3>1, <3>2
    <3> QED BY <1>0, <1>2, <1>5, <2>1, <2>2, <2>4, <3>1, <3>3 DEF Counts
  <2>6. CASE cache # "made"
    BY <1>0, <1>2, <1>5, <2>1, <2>2, <2>3, <2>4, <2>6 DEF Counts, OwnCache
  <2> QED BY <2>5, <2>6
<1>8. LocksHeld'
  BY <1>0, <1>1, <1>2, <1>3, <1>5, StepLocks DEF Is, Holds, Sweeping, Masked
<1>9. SlotsOnce'
  <2>1. \A s \in Slots : (Has(f, s) <=> Has(T, s)) /\ (Unclaimed(f, s) <=> Unclaimed(T, s))
    BY <1>1, <1>2, <1>3 DEF Is, Has, Unclaimed, InLock, FrameOK, Kinds
  <2>2. /\ (Returns(f) <=> Returns(T)) /\ (Returns(T) => f.got = T.got)
        /\ (Flushes(f) <=> Flushes(T)) \/ rel = {}
        /\ f.cached => avail = {} \/ f.at \in Draining \cup {"leave"}
        /\ f.at # "read"
    BY <1>0, <1>1, <1>2, <1>3 DEF Is, Returns, Flushes, Draining, InLock, FrameOK, SlotsOnce
  <2> QED BY <1>0, <1>2, <1>5, <2>1, <2>2, StepSlots
<1> QED BY <1>5, <1>6, <1>7, <1>8, <1>9 DEF NestInv

LEMMA DeferStartStep ==
  ASSUME NestInv, DeferFree, count < DeferredLimit
  PROVE  NestInv'
<1> DEFINE f == [Top EXCEPT !.at = "defer", !.n = count]
<1>0. NestingTypeOK /\ ~trapped /\ StackShape /\ Counts /\ LocksHeld /\ SlotsOnce
  BY DEF NestInv
<1>1. /\ stack # <<>> /\ T = Top /\ T.at = "enter" /\ Top.kind # "handler"
      /\ FrameOK(T) /\ T \in FrameType /\ U \in FrameType
  BY RunningTop DEF DeferFree
<1>2. /\ Becomes(f)
      /\ UNCHANGED <<cache, avail, rel, depth, locks, count, deferred, free, queued, live, locked, sweeping, masked, signals, held, left, trapped, torn>>
      /\ "defer" \in Places /\ T.kind = "free" /\ Refused /\ count \in Nat /\ count < DeferredLimit
  BY <1>0, <1>1, NestingAssumption
     DEF DeferFree, Places, NestingTypeOK, cacheVars, nestVars, deferVars, heapVars, lockVars,
         progVars
<1>3. Is(f, T, "defer", T.self, T.got, count, T.job, T.cached, T.draining, T.swept, T.back)
  BY <1>1, <1>2, FieldTypes, BecomingN
<1> HIDE DEF f
<1>4. FrameOK(f)
  BY <1>1, <1>2, <1>3 DEF FrameOK, Is, InLock, Draining, Before
<1>5. /\ StackShape' /\ U' = U /\ T' = f /\ (Handled' <=> Handled) /\ Len(stack') = Len(stack)
      /\ \A i \in 1 .. Len(stack') : stack'[i] \in FrameType
  <2>1. /\ f.kind = T.kind /\ (f.self \/ f.cached => cache = "made")
        /\ Len(stack) >= 2 => f.self \/ f.at \in {"enter", "defer"}
        /\ f.at = "map" => cache = "none"
        /\ T.self => f.self
        /\ cache = "none" => avail' = {} /\ rel' = {}
    BY <1>0, <1>1, <1>2, <1>3 DEF Is, StackShape
  <2> QED BY <1>1, <1>2, <1>4, <2>1, StepShape
<1>6. NestingTypeOK' /\ ~trapped'
  BY <1>0, <1>1, <1>2, <1>5 DEF NestingTypeOK
<1>7. Counts'
  <2>1. ~Busy(T) /\ ~Busy(f) /\ ~Locks(T) /\ ~Locks(f)
    BY <1>1, <1>3 DEF Busy, Locks, Is, FrameOK
  <2>2. Locks(U)
    BY <1>0, <1>2, <2>1 DEF Refused, OwnCache, Counts
  <2>3. Handled
    BY <1>0, <2>2, TwoFrames, RestOK DEF Locks
  <2>4. Busy(U) => Outside(f)
    BY <1>1, <1>3 DEF Outside, Is, InLock, Draining, Sweeping, FrameOK, Before
  <2>5. f.at = "defer" /\ f.n = count
    BY <1>3 DEF Is
  <2> QED BY <1>0, <1>2, <1>5, <2>1, <2>2, <2>3, <2>4, <2>5 DEF Counts
<1>8. LocksHeld'
  BY <1>0, <1>1, <1>2, <1>3, <1>5, StepLocks DEF Is, Holds, Sweeping, Masked
<1>9. SlotsOnce'
  BY <1>0, <1>1, <1>2, <1>3, <1>5, StepSlots
     DEF Is, Has, Unclaimed, Returns, Flushes, Draining, InLock, FrameOK, SlotsOnce
<1> QED BY <1>5, <1>6, <1>7, <1>8, <1>9 DEF NestInv

LEMMA TestDeferredStep ==
  ASSUME NestInv, TestDeferred, count # 0
  PROVE  NestInv'
<1> DEFINE f == [Top EXCEPT !.at = "decrement", !.n = count]
<1>0. NestingTypeOK /\ ~trapped /\ StackShape /\ Counts /\ LocksHeld /\ SlotsOnce
  BY DEF NestInv
<1>1. /\ stack # <<>> /\ T = Top /\ T.at = "deferred" /\ Top.kind # "handler"
      /\ FrameOK(T) /\ T \in FrameType /\ U \in FrameType
  BY RunningTop DEF TestDeferred
<1>2. /\ Becomes(f)
      /\ UNCHANGED <<cache, avail, rel, depth, locks, count, deferred, free, queued, live, locked, sweeping, masked, signals, held, left, trapped, torn>>
      /\ "decrement" \in Places /\ count \in Nat /\ count # 0 /\ count \in 1 .. DeferredLimit
  BY <1>0, <1>1, NestingAssumption
     DEF TestDeferred, Moves, Places, NestingTypeOK, cacheVars, nestVars, deferVars, heapVars,
         lockVars, progVars
<1>3. Is(f, T, "decrement", T.self, T.got, count, T.job, T.cached, T.draining, T.swept, T.back)
  BY <1>1, <1>2, FieldTypes, BecomingN
<1> HIDE DEF f
<1>4. FrameOK(f)
  BY <1>1, <1>2, <1>3 DEF FrameOK, Is, InLock, Draining, Before
<1>5. /\ StackShape' /\ U' = U /\ T' = f /\ (Handled' <=> Handled) /\ Len(stack') = Len(stack)
      /\ \A i \in 1 .. Len(stack') : stack'[i] \in FrameType
  <2>1. /\ f.kind = T.kind /\ (f.self \/ f.cached => cache = "made")
        /\ Len(stack) >= 2 => f.self \/ f.at \in {"enter", "defer"}
        /\ f.at = "map" => cache = "none"
        /\ T.self => f.self
        /\ cache = "none" => avail' = {} /\ rel' = {}
    BY <1>0, <1>1, <1>2, <1>3 DEF Is, StackShape
  <2> QED BY <1>1, <1>2, <1>4, <2>1, StepShape
<1>6. NestingTypeOK' /\ ~trapped'
  BY <1>0, <1>1, <1>2, <1>5 DEF NestingTypeOK
<1>7. Counts'
  <2>1. ~Busy(T) /\ ~Busy(f) /\ ~Locks(T) /\ ~Locks(f)
    BY <1>1, <1>3 DEF Busy, Locks, Is, Draining
  <2>2. ~Locks(U) /\ ~Busy(U)
    BY <1>0, <1>1 DEF Counts, Outside, Draining
  <2>3. signals # 0
    BY <1>0, <1>2 DEF Counts
  <2>4. f.at = "decrement" /\ f.n = count /\ f.self
    BY <1>1, <1>3 DEF Is, FrameOK, Draining
  <2> QED BY <1>0, <1>2, <1>5, <2>1, <2>2, <2>3, <2>4 DEF Counts
<1>8. LocksHeld'
  BY <1>0, <1>1, <1>2, <1>3, <1>5, StepLocks DEF Is, Holds, Sweeping, Masked
<1>9. SlotsOnce'
  BY <1>0, <1>1, <1>2, <1>3, <1>5, StepSlots
     DEF Is, Has, Unclaimed, Returns, Flushes, Draining, InLock, FrameOK, SlotsOnce
<1> QED BY <1>5, <1>6, <1>7, <1>8, <1>9 DEF NestInv

LEMMA TakeStep ==
  ASSUME NestInv, Take
  PROVE  NestInv'
<1> DEFINE f == [Top EXCEPT !.at = "lock"]
<1>0. NestingTypeOK /\ ~trapped /\ StackShape /\ Counts /\ LocksHeld /\ SlotsOnce
  BY DEF NestInv
<1>1. /\ stack # <<>> /\ T = Top /\ T.at = "take" /\ Top.kind # "handler"
      /\ FrameOK(T) /\ T \in FrameType /\ U \in FrameType
  BY RunningTop DEF Take
<1>2. /\ Becomes(f)
      /\ UNCHANGED <<cache, avail, rel, depth, count, deferred, free, queued, live, locked, sweeping, masked, signals, held, left, trapped, torn>>
      /\ "lock" \in Places /\ locks' = IF OwnCache THEN locks + 1 ELSE locks
  BY <1>1 DEF Take, Go, Places, cacheVars, nestVars, deferVars, heapVars, lockVars, progVars
<1>3. Is(f, T, "lock", T.self, T.got, T.n, T.job, T.cached, T.draining, T.swept, T.back)
  BY <1>1, <1>2, FieldTypes, BecomingAt
<1> HIDE DEF f
<1>4. FrameOK(f)
  BY <1>1, <1>2, <1>3 DEF FrameOK, Is, InLock, Draining, Before
<1>5. /\ StackShape' /\ U' = U /\ T' = f /\ (Handled' <=> Handled) /\ Len(stack') = Len(stack)
      /\ \A i \in 1 .. Len(stack') : stack'[i] \in FrameType
  <2>1. /\ f.kind = T.kind /\ (f.self \/ f.cached => cache = "made")
        /\ Len(stack) >= 2 => f.self \/ f.at \in {"enter", "defer"}
        /\ f.at = "map" => cache = "none"
        /\ T.self => f.self
        /\ cache = "none" => avail' = {} /\ rel' = {}
    BY <1>0, <1>1, <1>2, <1>3 DEF Is, StackShape
  <2> QED BY <1>1, <1>2, <1>4, <2>1, StepShape
<1>6. NestingTypeOK' /\ ~trapped'
  BY <1>0, <1>1, <1>2, <1>5 DEF NestingTypeOK
<1>7. Counts'
  <2>1. (Busy(T) <=> Busy(f)) /\ ~Locks(T) /\ Locks(f) /\ f.at = "lock" /\ f.self = T.self
    BY <1>1, <1>3 DEF Busy, Locks, Is, Draining
  <2>2. ~Locks(U) /\ (Busy(U) => Outside(f))
    BY <1>1, <1>3, Below DEF Outside, Is, InLock, Draining, Sweeping
  <2> QED BY <1>0, <1>1, <1>2, <1>5, <2>1, <2>2 DEF Counts, OwnCache
<1>8. LocksHeld'
  BY <1>0, <1>1, <1>2, <1>3, <1>5, StepLocks DEF Is, Holds, Sweeping, Masked
<1>9. SlotsOnce'
  <2>1. \A s \in Slots : (Has(f, s) <=> Has(T, s)) /\ (Unclaimed(f, s) <=> Unclaimed(T, s))
    BY <1>1, <1>2, <1>3 DEF Is, Has, Unclaimed, InLock, FrameOK
  <2>2. /\ (Returns(f) <=> Returns(T)) /\ (Returns(T) => f.got = T.got)
        /\ (Flushes(f) <=> Flushes(T)) \/ rel = {}
        /\ f.cached => avail = {} \/ f.at \in Draining \cup {"leave"}
        /\ f.at # "read"
    BY <1>0, <1>1, <1>2, <1>3 DEF Is, Returns, Flushes, Draining, InLock, FrameOK, SlotsOnce
  <2> QED BY <1>0, <1>2, <1>5, <2>1, <2>2, StepSlots
<1> QED BY <1>5, <1>6, <1>7, <1>8, <1>9 DEF NestInv

LEMMA GiveStep ==
  ASSUME NestInv, Give
  PROVE  NestInv'
<1> DEFINE p == AfterGive(Top)
           f == [Top EXCEPT !.at = p]
<1>0. NestingTypeOK /\ ~trapped /\ StackShape /\ Counts /\ LocksHeld /\ SlotsOnce
  BY DEF NestInv
<1>1. /\ stack # <<>> /\ T = Top /\ T.at = "give" /\ Top.kind # "handler"
      /\ FrameOK(T) /\ T \in FrameType /\ U \in FrameType
  BY RunningTop DEF Give
<1>2. /\ Becomes(f)
      /\ UNCHANGED <<cache, avail, rel, depth, count, deferred, free, queued, live, locked, sweeping, masked, signals, held, left, trapped, torn>>
      /\ p \in Places /\ locks' = (IF OwnCache THEN locks - 1 ELSE locks) /\ T.job \in Jobs \ {"none"}
      /\ p = AfterGive(T)
  BY <1>1, FieldTypes
     DEF Give, Go, Places, Jobs, AfterGive, FrameOK, InLock, cacheVars, nestVars, deferVars,
         heapVars, lockVars, progVars
<1>3. Is(f, T, p, T.self, T.got, T.n, T.job, T.cached, T.draining, T.swept, T.back)
  BY <1>1, <1>2, FieldTypes, BecomingAt
<1> HIDE DEF p, f
<1>4. FrameOK(f)
  BY <1>1, <1>2, <1>3 DEF FrameOK, Is, InLock, Draining, Before, AfterGive, Jobs
<1>5. /\ StackShape' /\ U' = U /\ T' = f /\ (Handled' <=> Handled) /\ Len(stack') = Len(stack)
      /\ \A i \in 1 .. Len(stack') : stack'[i] \in FrameType
  <2>1. /\ f.kind = T.kind /\ (f.self \/ f.cached => cache = "made")
        /\ Len(stack) >= 2 => f.self \/ f.at \in {"enter", "defer"}
        /\ f.at = "map" => cache = "none"
        /\ T.self => f.self
        /\ cache = "none" => avail' = {} /\ rel' = {}
    BY <1>0, <1>1, <1>2, <1>3 DEF Is, StackShape, AfterGive, Jobs
  <2> QED BY <1>1, <1>2, <1>4, <2>1, StepShape
<1>6. NestingTypeOK' /\ ~trapped'
  BY <1>0, <1>1, <1>2, <1>5 DEF NestingTypeOK
<1>7. Counts'
  <2>1. (Busy(T) <=> Busy(f)) /\ Locks(T) /\ ~Locks(f) /\ f.self = T.self
    BY <1>1, <1>2, <1>3 DEF Busy, Locks, Is, Draining, AfterGive, Jobs
  <2>2. ~Locks(U) /\ (Busy(U) => Outside(f))
    BY <1>1, <1>2, <1>3, Below DEF Outside, Is, InLock, Draining, Sweeping, AfterGive, Jobs
  <2>3. f.at \notin {"enter", "defer", "handler", "decrement", "read"}
    BY <1>2, <1>3 DEF Is, AfterGive, Jobs
  <2> QED BY <1>0, <1>1, <1>2, <1>5, <2>1, <2>2, <2>3 DEF Counts, OwnCache
<1>8. LocksHeld'
  BY <1>0, <1>1, <1>2, <1>3, <1>5, StepLocks DEF Is, Sweeping, Masked, AfterGive, Jobs, Holds
<1>9. SlotsOnce'
  <2>1. \A s \in Slots : (Has(f, s) <=> Has(T, s)) /\ (Unclaimed(f, s) <=> Unclaimed(T, s))
    BY <1>1, <1>2, <1>3 DEF Is, Has, Unclaimed, InLock, FrameOK, AfterGive, Jobs
  <2>2. /\ (Returns(f) <=> Returns(T)) /\ (Returns(T) => f.got = T.got)
        /\ (Flushes(f) <=> Flushes(T)) \/ rel = {}
        /\ f.cached => avail = {} \/ f.at \in Draining \cup {"leave"}
        /\ f.at # "read"
    BY <1>0, <1>1, <1>2, <1>3
       DEF Is, Returns, Flushes, Draining, InLock, FrameOK, SlotsOnce, AfterGive, Jobs
  <2> QED BY <1>0, <1>2, <1>5, <2>1, <2>2, StepSlots
<1> QED BY <1>5, <1>6, <1>7, <1>8, <1>9 DEF NestInv

LEMMA LockStep ==
  ASSUME NestInv, Lock
  PROVE  NestInv'
<1> DEFINE f == [Top EXCEPT !.at = "work"]
<1>0. NestingTypeOK /\ ~trapped /\ StackShape /\ Counts /\ LocksHeld /\ SlotsOnce
  BY DEF NestInv
<1>1. /\ stack # <<>> /\ T = Top /\ T.at = "lock" /\ Top.kind # "handler"
      /\ FrameOK(T) /\ T \in FrameType /\ U \in FrameType
  BY RunningTop DEF Lock
<1>2. /\ Becomes(f)
      /\ UNCHANGED <<cache, avail, rel, depth, locks, count, deferred, free, queued, live, sweeping, masked, signals, held, left, trapped, torn>>
      /\ "work" \in Places /\ locked' = locked \cup {LockOf(T.job)}
  BY <1>1 DEF Lock, Go, Places, cacheVars, nestVars, deferVars, heapVars, lockVars, progVars
<1>3. Is(f, T, "work", T.self, T.got, T.n, T.job, T.cached, T.draining, T.swept, T.back)
  BY <1>1, <1>2, FieldTypes, BecomingAt
<1> HIDE DEF f
<1>4. FrameOK(f)
  BY <1>1, <1>2, <1>3 DEF FrameOK, Is, InLock, Draining, Before
<1>5. /\ StackShape' /\ U' = U /\ T' = f /\ (Handled' <=> Handled) /\ Len(stack') = Len(stack)
      /\ \A i \in 1 .. Len(stack') : stack'[i] \in FrameType
  <2>1. /\ f.kind = T.kind /\ (f.self \/ f.cached => cache = "made")
        /\ Len(stack) >= 2 => f.self \/ f.at \in {"enter", "defer"}
        /\ f.at = "map" => cache = "none"
        /\ T.self => f.self
        /\ cache = "none" => avail' = {} /\ rel' = {}
    BY <1>0, <1>1, <1>2, <1>3 DEF Is, StackShape
  <2> QED BY <1>1, <1>2, <1>4, <2>1, StepShape
<1>6. NestingTypeOK' /\ ~trapped'
  BY <1>0, <1>1, <1>2, <1>5 DEF NestingTypeOK, LockOf
<1>7. Counts'
  <2>1. Busy(U) => Outside(f)
    BY <1>1, <1>2, <1>3, Below DEF Outside, Is, InLock, Draining, Sweeping
  <2> QED BY <1>0, <1>1, <1>2, <1>3, <1>5, <2>1, StepCounts DEF Is, Busy, Locks, Draining
<1>8. LocksHeld'
  <2>1. Holds(T) = {} /\ Holds(f) = {LockOf(T.job)} /\ f.at = "work"
    BY <1>1, <1>3 DEF Is, Holds
  <2> QED BY <1>0, <1>1, <1>2, <1>5, <2>1 DEF LocksHeld, Sweeping, Masked
<1>9. SlotsOnce'
  <2>1. \A s \in Slots : (Has(f, s) <=> Has(T, s)) /\ (Unclaimed(f, s) <=> Unclaimed(T, s))
    BY <1>1, <1>2, <1>3 DEF Is, Has, Unclaimed, InLock, FrameOK
  <2>2. /\ (Returns(f) <=> Returns(T)) /\ (Returns(T) => f.got = T.got)
        /\ (Flushes(f) <=> Flushes(T)) \/ rel = {}
        /\ f.cached => avail = {} \/ f.at \in Draining \cup {"leave"}
        /\ f.at # "read"
    BY <1>0, <1>1, <1>2, <1>3 DEF Is, Returns, Flushes, Draining, InLock, FrameOK, SlotsOnce
  <2> QED BY <1>0, <1>2, <1>5, <2>1, <2>2, StepSlots
<1> QED BY <1>5, <1>6, <1>7, <1>8, <1>9 DEF NestInv

LEMMA SweepBegins ==
  ASSUME NestInv, TrySweep, sweeping' = TRUE, ~sweeping
  PROVE  NestInv'
<1> DEFINE f == [Top EXCEPT !.at = "mask"]
<1>0. NestingTypeOK /\ ~trapped /\ StackShape /\ Counts /\ LocksHeld /\ SlotsOnce
  BY DEF NestInv
<1>1. /\ stack # <<>> /\ T = Top /\ T.at = "trysweep" /\ Top.kind # "handler"
      /\ FrameOK(T) /\ T \in FrameType /\ U \in FrameType
  BY RunningTop DEF TrySweep
<1>2. /\ Becomes(f)
      /\ UNCHANGED <<cache, avail, rel, depth, locks, count, deferred, free, queued, live, locked, masked, signals, held, left, trapped, torn>>
      /\ "mask" \in Places /\ sweeping' = TRUE
  BY <1>1 DEF TrySweep, Go, Places, cacheVars, nestVars, deferVars, heapVars, lockVars, progVars
<1>3. Is(f, T, "mask", T.self, T.got, T.n, T.job, T.cached, T.draining, T.swept, T.back)
  BY <1>1, <1>2, FieldTypes, BecomingAt
<1> HIDE DEF f
<1>4. FrameOK(f)
  BY <1>1, <1>2, <1>3 DEF FrameOK, Is, InLock, Draining, Before
<1>5. /\ StackShape' /\ U' = U /\ T' = f /\ (Handled' <=> Handled) /\ Len(stack') = Len(stack)
      /\ \A i \in 1 .. Len(stack') : stack'[i] \in FrameType
  <2>1. /\ f.kind = T.kind /\ (f.self \/ f.cached => cache = "made")
        /\ Len(stack) >= 2 => f.self \/ f.at \in {"enter", "defer"}
        /\ f.at = "map" => cache = "none"
        /\ T.self => f.self
        /\ cache = "none" => avail' = {} /\ rel' = {}
    BY <1>0, <1>1, <1>2, <1>3 DEF Is, StackShape
  <2> QED BY <1>1, <1>2, <1>4, <2>1, StepShape
<1>6. NestingTypeOK' /\ ~trapped'
  BY <1>0, <1>1, <1>2, <1>5 DEF NestingTypeOK
<1>7. Counts'
  <2>1. Busy(U) => Outside(f)
    BY <1>1, <1>2, <1>3, Below DEF Outside, Is, InLock, Draining, Sweeping
  <2> QED BY <1>0, <1>1, <1>2, <1>3, <1>5, <2>1, StepCounts DEF Is, Busy, Locks, Draining
<1>8. LocksHeld'
  <2>1. Holds(T) = {} /\ Holds(f) = {} /\ f.at = "mask"
    BY <1>1, <1>3 DEF Is, Holds
  <2> QED BY <1>0, <1>1, <1>2, <1>5, <2>1 DEF LocksHeld, Sweeping, Masked
<1>9. SlotsOnce'
  <2>1. \A s \in Slots : (Has(f, s) <=> Has(T, s)) /\ (Unclaimed(f, s) <=> Unclaimed(T, s))
    BY <1>1, <1>2, <1>3 DEF Is, Has, Unclaimed, InLock, FrameOK
  <2>2. /\ (Returns(f) <=> Returns(T)) /\ (Returns(T) => f.got = T.got)
        /\ (Flushes(f) <=> Flushes(T)) \/ rel = {}
        /\ f.cached => avail = {} \/ f.at \in Draining \cup {"leave"}
        /\ f.at # "read"
    BY <1>0, <1>1, <1>2, <1>3 DEF Is, Returns, Flushes, Draining, InLock, FrameOK, SlotsOnce
  <2> QED BY <1>0, <1>2, <1>5, <2>1, <2>2, StepSlots
<1> QED BY <1>5, <1>6, <1>7, <1>8, <1>9 DEF NestInv

LEMMA MaskStep ==
  ASSUME NestInv, Mask
  PROVE  NestInv'
<1> DEFINE f == [Top EXCEPT !.at = "lockall"]
<1>0. NestingTypeOK /\ ~trapped /\ StackShape /\ Counts /\ LocksHeld /\ SlotsOnce
  BY DEF NestInv
<1>1. /\ stack # <<>> /\ T = Top /\ T.at = "mask" /\ Top.kind # "handler"
      /\ FrameOK(T) /\ T \in FrameType /\ U \in FrameType
  BY RunningTop DEF Mask
<1>2. /\ Becomes(f)
      /\ UNCHANGED <<cache, avail, rel, depth, locks, count, deferred, free, queued, live, locked, sweeping, signals, held, left, trapped, torn>>
      /\ "lockall" \in Places /\ masked' = TRUE
  BY <1>1 DEF Mask, Go, Places, cacheVars, nestVars, deferVars, heapVars, lockVars, progVars
<1>3. Is(f, T, "lockall", T.self, T.got, T.n, T.job, T.cached, T.draining, T.swept, T.back)
  BY <1>1, <1>2, FieldTypes, BecomingAt
<1> HIDE DEF f
<1>4. FrameOK(f)
  BY <1>1, <1>2, <1>3 DEF FrameOK, Is, InLock, Draining, Before
<1>5. /\ StackShape' /\ U' = U /\ T' = f /\ (Handled' <=> Handled) /\ Len(stack') = Len(stack)
      /\ \A i \in 1 .. Len(stack') : stack'[i] \in FrameType
  <2>1. /\ f.kind = T.kind /\ (f.self \/ f.cached => cache = "made")
        /\ Len(stack) >= 2 => f.self \/ f.at \in {"enter", "defer"}
        /\ f.at = "map" => cache = "none"
        /\ T.self => f.self
        /\ cache = "none" => avail' = {} /\ rel' = {}
    BY <1>0, <1>1, <1>2, <1>3 DEF Is, StackShape
  <2> QED BY <1>1, <1>2, <1>4, <2>1, StepShape
<1>6. NestingTypeOK' /\ ~trapped'
  BY <1>0, <1>1, <1>2, <1>5 DEF NestingTypeOK
<1>7. Counts'
  <2>1. Busy(U) => Outside(f)
    BY <1>1, <1>2, <1>3, Below DEF Outside, Is, InLock, Draining, Sweeping
  <2> QED BY <1>0, <1>1, <1>2, <1>3, <1>5, <2>1, StepCounts DEF Is, Busy, Locks, Draining
<1>8. LocksHeld'
  <2>1. Holds(T) = {} /\ Holds(f) = {} /\ f.at = "lockall"
    BY <1>1, <1>3 DEF Is, Holds
  <2> QED BY <1>0, <1>1, <1>2, <1>5, <2>1 DEF LocksHeld, Sweeping, Masked
<1>9. SlotsOnce'
  <2>1. \A s \in Slots : (Has(f, s) <=> Has(T, s)) /\ (Unclaimed(f, s) <=> Unclaimed(T, s))
    BY <1>1, <1>2, <1>3 DEF Is, Has, Unclaimed, InLock, FrameOK
  <2>2. /\ (Returns(f) <=> Returns(T)) /\ (Returns(T) => f.got = T.got)
        /\ (Flushes(f) <=> Flushes(T)) \/ rel = {}
        /\ f.cached => avail = {} \/ f.at \in Draining \cup {"leave"}
        /\ f.at # "read"
    BY <1>0, <1>1, <1>2, <1>3 DEF Is, Returns, Flushes, Draining, InLock, FrameOK, SlotsOnce
  <2> QED BY <1>0, <1>2, <1>5, <2>1, <2>2, StepSlots
<1> QED BY <1>5, <1>6, <1>7, <1>8, <1>9 DEF NestInv

LEMMA LockAllStep ==
  ASSUME NestInv, LockAll
  PROVE  NestInv'
<1> DEFINE f == [Top EXCEPT !.at = "recycle"]
<1>0. NestingTypeOK /\ ~trapped /\ StackShape /\ Counts /\ LocksHeld /\ SlotsOnce
  BY DEF NestInv
<1>1. /\ stack # <<>> /\ T = Top /\ T.at = "lockall" /\ Top.kind # "handler"
      /\ FrameOK(T) /\ T \in FrameType /\ U \in FrameType
  BY RunningTop DEF LockAll
<1>2. /\ Becomes(f)
      /\ UNCHANGED <<cache, avail, rel, depth, locks, count, deferred, free, queued, live, sweeping, masked, signals, held, left, trapped, torn>>
      /\ "recycle" \in Places /\ locked' = locked \cup {"region"}
  BY <1>1 DEF LockAll, Go, Places, cacheVars, nestVars, deferVars, heapVars, lockVars, progVars
<1>3. Is(f, T, "recycle", T.self, T.got, T.n, T.job, T.cached, T.draining, T.swept, T.back)
  BY <1>1, <1>2, FieldTypes, BecomingAt
<1> HIDE DEF f
<1>4. FrameOK(f)
  BY <1>1, <1>2, <1>3 DEF FrameOK, Is, InLock, Draining, Before
<1>5. /\ StackShape' /\ U' = U /\ T' = f /\ (Handled' <=> Handled) /\ Len(stack') = Len(stack)
      /\ \A i \in 1 .. Len(stack') : stack'[i] \in FrameType
  <2>1. /\ f.kind = T.kind /\ (f.self \/ f.cached => cache = "made")
        /\ Len(stack) >= 2 => f.self \/ f.at \in {"enter", "defer"}
        /\ f.at = "map" => cache = "none"
        /\ T.self => f.self
        /\ cache = "none" => avail' = {} /\ rel' = {}
    BY <1>0, <1>1, <1>2, <1>3 DEF Is, StackShape
  <2> QED BY <1>1, <1>2, <1>4, <2>1, StepShape
<1>6. NestingTypeOK' /\ ~trapped'
  BY <1>0, <1>1, <1>2, <1>5 DEF NestingTypeOK
<1>7. Counts'
  <2>1. Busy(U) => Outside(f)
    BY <1>1, <1>2, <1>3, Below DEF Outside, Is, InLock, Draining, Sweeping
  <2> QED BY <1>0, <1>1, <1>2, <1>3, <1>5, <2>1, StepCounts DEF Is, Busy, Locks, Draining
<1>8. LocksHeld'
  <2>1. Holds(T) = {} /\ Holds(f) = {"region"} /\ f.at = "recycle"
    BY <1>1, <1>3 DEF Is, Holds
  <2> QED BY <1>0, <1>1, <1>2, <1>5, <2>1 DEF LocksHeld, Sweeping, Masked
<1>9. SlotsOnce'
  <2>1. \A s \in Slots : (Has(f, s) <=> Has(T, s)) /\ (Unclaimed(f, s) <=> Unclaimed(T, s))
    BY <1>1, <1>2, <1>3 DEF Is, Has, Unclaimed, InLock, FrameOK
  <2>2. /\ (Returns(f) <=> Returns(T)) /\ (Returns(T) => f.got = T.got)
        /\ (Flushes(f) <=> Flushes(T)) \/ rel = {}
        /\ f.cached => avail = {} \/ f.at \in Draining \cup {"leave"}
        /\ f.at # "read"
    BY <1>0, <1>1, <1>2, <1>3 DEF Is, Returns, Flushes, Draining, InLock, FrameOK, SlotsOnce
  <2> QED BY <1>0, <1>2, <1>5, <2>1, <2>2, StepSlots
<1> QED BY <1>5, <1>6, <1>7, <1>8, <1>9 DEF NestInv

LEMMA UnmaskStep ==
  ASSUME NestInv, Unmask
  PROVE  NestInv'
<1> DEFINE f == [Top EXCEPT !.at = "unsweep"]
<1>0. NestingTypeOK /\ ~trapped /\ StackShape /\ Counts /\ LocksHeld /\ SlotsOnce
  BY DEF NestInv
<1>1. /\ stack # <<>> /\ T = Top /\ T.at = "unmask" /\ Top.kind # "handler"
      /\ FrameOK(T) /\ T \in FrameType /\ U \in FrameType
  BY RunningTop DEF Unmask
<1>2. /\ Becomes(f)
      /\ UNCHANGED <<cache, avail, rel, depth, locks, count, deferred, free, queued, live, locked, sweeping, signals, held, left, trapped, torn>>
      /\ "unsweep" \in Places /\ masked' = FALSE
  BY <1>1 DEF Unmask, Go, Places, cacheVars, nestVars, deferVars, heapVars, lockVars, progVars
<1>3. Is(f, T, "unsweep", T.self, T.got, T.n, T.job, T.cached, T.draining, T.swept, T.back)
  BY <1>1, <1>2, FieldTypes, BecomingAt
<1> HIDE DEF f
<1>4. FrameOK(f)
  BY <1>1, <1>2, <1>3 DEF FrameOK, Is, InLock, Draining, Before
<1>5. /\ StackShape' /\ U' = U /\ T' = f /\ (Handled' <=> Handled) /\ Len(stack') = Len(stack)
      /\ \A i \in 1 .. Len(stack') : stack'[i] \in FrameType
  <2>1. /\ f.kind = T.kind /\ (f.self \/ f.cached => cache = "made")
        /\ Len(stack) >= 2 => f.self \/ f.at \in {"enter", "defer"}
        /\ f.at = "map" => cache = "none"
        /\ T.self => f.self
        /\ cache = "none" => avail' = {} /\ rel' = {}
    BY <1>0, <1>1, <1>2, <1>3 DEF Is, StackShape
  <2> QED BY <1>1, <1>2, <1>4, <2>1, StepShape
<1>6. NestingTypeOK' /\ ~trapped'
  BY <1>0, <1>1, <1>2, <1>5 DEF NestingTypeOK
<1>7. Counts'
  <2>1. Busy(U) => Outside(f)
    BY <1>1, <1>2, <1>3, Below DEF Outside, Is, InLock, Draining, Sweeping
  <2> QED BY <1>0, <1>1, <1>2, <1>3, <1>5, <2>1, StepCounts DEF Is, Busy, Locks, Draining
<1>8. LocksHeld'
  <2>1. Holds(T) = {} /\ Holds(f) = {} /\ f.at = "unsweep"
    BY <1>1, <1>3 DEF Is, Holds
  <2> QED BY <1>0, <1>1, <1>2, <1>5, <2>1 DEF LocksHeld, Sweeping, Masked
<1>9. SlotsOnce'
  <2>1. \A s \in Slots : (Has(f, s) <=> Has(T, s)) /\ (Unclaimed(f, s) <=> Unclaimed(T, s))
    BY <1>1, <1>2, <1>3 DEF Is, Has, Unclaimed, InLock, FrameOK
  <2>2. /\ (Returns(f) <=> Returns(T)) /\ (Returns(T) => f.got = T.got)
        /\ (Flushes(f) <=> Flushes(T)) \/ rel = {}
        /\ f.cached => avail = {} \/ f.at \in Draining \cup {"leave"}
        /\ f.at # "read"
    BY <1>0, <1>1, <1>2, <1>3 DEF Is, Returns, Flushes, Draining, InLock, FrameOK, SlotsOnce
  <2> QED BY <1>0, <1>2, <1>5, <2>1, <2>2, StepSlots
<1> QED BY <1>5, <1>6, <1>7, <1>8, <1>9 DEF NestInv

LEMMA UnsweepStep ==
  ASSUME NestInv, Unsweep
  PROVE  NestInv'
<1> DEFINE f == [Top EXCEPT !.at = T.back]
<1>0. NestingTypeOK /\ ~trapped /\ StackShape /\ Counts /\ LocksHeld /\ SlotsOnce
  BY DEF NestInv
<1>1. /\ stack # <<>> /\ T = Top /\ T.at = "unsweep" /\ Top.kind # "handler"
      /\ FrameOK(T) /\ T \in FrameType /\ U \in FrameType
  BY RunningTop DEF Unsweep
<1>2. /\ Becomes(f)
      /\ UNCHANGED <<cache, avail, rel, depth, locks, count, deferred, free, queued, live, locked, masked, signals, held, left, trapped, torn>>
      /\ T.back \in Places /\ T.back \in {"leave", "retry"} /\ sweeping' = FALSE
  BY <1>1, FieldTypes
     DEF Unsweep, Go, Places, cacheVars, nestVars, deferVars, heapVars, lockVars, progVars
<1>3. Is(f, T, T.back, T.self, T.got, T.n, T.job, T.cached, T.draining, T.swept, T.back)
  BY <1>1, <1>2, FieldTypes, BecomingAt
<1> HIDE DEF f
<1>4. FrameOK(f)
  BY <1>1, <1>2, <1>3 DEF FrameOK, Is, InLock, Draining, Before
<1>5. /\ StackShape' /\ U' = U /\ T' = f /\ (Handled' <=> Handled) /\ Len(stack') = Len(stack)
      /\ \A i \in 1 .. Len(stack') : stack'[i] \in FrameType
  <2>1. /\ f.kind = T.kind /\ (f.self \/ f.cached => cache = "made")
        /\ Len(stack) >= 2 => f.self \/ f.at \in {"enter", "defer"}
        /\ f.at = "map" => cache = "none"
        /\ T.self => f.self
        /\ cache = "none" => avail' = {} /\ rel' = {}
    BY <1>0, <1>1, <1>2, <1>3 DEF Is, StackShape
  <2> QED BY <1>1, <1>2, <1>4, <2>1, StepShape
<1>6. NestingTypeOK' /\ ~trapped'
  BY <1>0, <1>1, <1>2, <1>5 DEF NestingTypeOK
<1>7. Counts'
  <2>1. Busy(U) => Outside(f)
    BY <1>1, <1>2, <1>3, Below DEF Outside, Is, InLock, Draining, Sweeping
  <2> QED BY <1>0, <1>1, <1>2, <1>3, <1>5, <2>1, StepCounts DEF Is, Busy, Locks, Draining
<1>8. LocksHeld'
  <2>1. Holds(T) = {} /\ Holds(f) = {} /\ f.at \in {"leave", "retry"}
    BY <1>1, <1>2, <1>3 DEF Is, Holds
  <2> QED BY <1>0, <1>1, <1>2, <1>5, <2>1 DEF LocksHeld, Sweeping, Masked
<1>9. SlotsOnce'
  <2>1. \A s \in Slots : (Has(f, s) <=> Has(T, s)) /\ (Unclaimed(f, s) <=> Unclaimed(T, s))
    BY <1>1, <1>2, <1>3 DEF Is, Has, Unclaimed, InLock, FrameOK
  <2>2. /\ (Returns(f) <=> Returns(T)) /\ (Returns(T) => f.got = T.got)
        /\ (Flushes(f) <=> Flushes(T)) \/ rel = {}
        /\ f.cached => avail = {} \/ f.at \in Draining \cup {"leave"}
        /\ f.at # "read"
    BY <1>0, <1>1, <1>2, <1>3 DEF Is, Returns, Flushes, Draining, InLock, FrameOK, SlotsOnce
  <2> QED BY <1>0, <1>2, <1>5, <2>1, <2>2, StepSlots
<1> QED BY <1>5, <1>6, <1>7, <1>8, <1>9 DEF NestInv

LEMMA LastLeaves ==
  ASSUME NestInv, Leave, Top.self, depth' = 0
  PROVE  NestInv'
<1> DEFINE f == [Top EXCEPT !.at = "deferred"]
<1>0. NestingTypeOK /\ ~trapped /\ StackShape /\ Counts /\ LocksHeld /\ SlotsOnce
  BY DEF NestInv
<1>1. /\ stack # <<>> /\ T = Top /\ T.at = "leave" /\ Top.kind # "handler"
      /\ FrameOK(T) /\ T \in FrameType /\ U \in FrameType
  BY RunningTop DEF Leave
<1>2. /\ Becomes(f)
      /\ UNCHANGED <<cache, avail, rel, locks, count, deferred, free, queued, live, locked, sweeping, masked, signals, held, left, trapped, torn>>
      /\ "deferred" \in Places /\ depth' = depth - 1 /\ depth' = 0 /\ T.self
  BY <1>1 DEF Leave, Go, Places, cacheVars, nestVars, deferVars, heapVars, lockVars, progVars
<1>3. Is(f, T, "deferred", T.self, T.got, T.n, T.job, T.cached, T.draining, T.swept, T.back)
  BY <1>1, <1>2, FieldTypes, BecomingAt
<1> HIDE DEF f
<1>4. FrameOK(f)
  BY <1>1, <1>2, <1>3 DEF FrameOK, Is, InLock, Draining, Before
<1>5. /\ StackShape' /\ U' = U /\ T' = f /\ (Handled' <=> Handled) /\ Len(stack') = Len(stack)
      /\ \A i \in 1 .. Len(stack') : stack'[i] \in FrameType
  <2>1. /\ f.kind = T.kind /\ (f.self \/ f.cached => cache = "made")
        /\ Len(stack) >= 2 => f.self \/ f.at \in {"enter", "defer"}
        /\ f.at = "map" => cache = "none"
        /\ T.self => f.self
        /\ cache = "none" => avail' = {} /\ rel' = {}
    BY <1>0, <1>1, <1>2, <1>3 DEF Is, StackShape
  <2> QED BY <1>1, <1>2, <1>4, <2>1, StepShape
<1>6. NestingTypeOK' /\ ~trapped'
  BY <1>0, <1>1, <1>2, <1>5 DEF NestingTypeOK
<1>7. Counts'
  <2>1. Busy(T) /\ ~Busy(f) /\ ~Locks(T) /\ ~Locks(f) /\ f.at = "deferred" /\ f.self
    BY <1>1, <1>2, <1>3 DEF Busy, Locks, Is, Draining
  <2>2. ~Busy(U) /\ ~Locks(U)
    BY <1>0, <1>1, <1>2, <2>1, Below DEF Counts
  <2> QED BY <1>0, <1>1, <1>2, <1>5, <2>1, <2>2 DEF Counts
<1>8. LocksHeld'
  BY <1>0, <1>1, <1>2, <1>3, <1>5, StepLocks DEF Is, Holds, Sweeping, Masked
<1>9. SlotsOnce'
  <2>1. \A s \in Slots : (Has(f, s) <=> Has(T, s)) /\ (Unclaimed(f, s) <=> Unclaimed(T, s))
    BY <1>1, <1>2, <1>3 DEF Is, Has, Unclaimed, InLock, FrameOK
  <2>2. /\ (Returns(f) <=> Returns(T)) /\ (Returns(T) => f.got = T.got)
        /\ (Flushes(f) <=> Flushes(T)) \/ rel = {}
        /\ f.cached => avail = {} \/ f.at \in Draining \cup {"leave"}
        /\ f.at # "read"
    BY <1>0, <1>1, <1>2, <1>3 DEF Is, Returns, Flushes, Draining, InLock, FrameOK, SlotsOnce
  <2> QED BY <1>0, <1>2, <1>5, <2>1, <2>2, StepSlots
<1> QED BY <1>5, <1>6, <1>7, <1>8, <1>9 DEF NestInv

-----------------------------------------------------------------------------
(* Steps that move a slot.                                                 *)
(***************************************************************************)
\* A frame that is not in the allocator has nothing of the cache.
LEMMA Idle ==
  ASSUME NestInv, ~Busy(U)
  PROVE  /\ U.at \in {"enter", "handler", "deferred"} /\ ~Returns(U) /\ ~Flushes(U)
         /\ U.cached => U.at \in Draining
<1>0. StackShape /\ FrameOK(U)
  BY TwoFrames DEF NestInv
<1>1. U.at \in {"enter", "handler", "deferred"}
  BY <1>0, TwoFrames, RestOK DEF StackShape, Busy, Draining
<1>2. U.cached => U.at \in Draining
  BY <1>0, <1>1 DEF FrameOK, Before, Draining
<1> QED BY <1>1, <1>2 DEF Returns, Flushes, InLock

\* A release finds its block live.
LEMMA ClaimStep ==
  ASSUME NestInv, Claim
  PROVE  NestInv'
<1> DEFINE f == [Top EXCEPT !.at = "cache"]
<1>0. NestingTypeOK /\ ~trapped /\ StackShape /\ Counts /\ LocksHeld /\ SlotsOnce
  BY DEF NestInv
<1>1. /\ stack # <<>> /\ T = Top /\ T.at = "claim" /\ Top.kind # "handler"
      /\ FrameOK(T) /\ T \in FrameType /\ U \in FrameType
  BY RunningTop DEF Claim
<1>2. /\ Becomes(f)
      /\ UNCHANGED <<cache, avail, rel, depth, locks, count, deferred, free, queued, locked, sweeping, masked, signals, held, left, torn>>
      /\ "cache" \in Places /\ T.kind = "free" /\ T.arg \in Slots /\ live' = live \ {T.arg}
  BY <1>1 DEF Claim, Go, Places, FrameOK, cacheVars, nestVars, deferVars, heapVars, lockVars, progVars
<1>3. Is(f, T, "cache", T.self, T.got, T.n, T.job, T.cached, T.draining, T.swept, T.back)
  BY <1>1, <1>2, FieldTypes, BecomingAt
<1> HIDE DEF f
<1>4. FrameOK(f)
  BY <1>1, <1>2, <1>3 DEF FrameOK, Is, InLock, Draining, Before
<1>5. /\ StackShape' /\ U' = U /\ T' = f /\ (Handled' <=> Handled) /\ Len(stack') = Len(stack)
      /\ \A i \in 1 .. Len(stack') : stack'[i] \in FrameType
  <2>1. /\ f.kind = T.kind /\ (f.self \/ f.cached => cache = "made")
        /\ Len(stack) >= 2 => f.self \/ f.at \in {"enter", "defer"}
        /\ f.at = "map" => cache = "none"
        /\ T.self => f.self
        /\ cache = "none" => avail' = {} /\ rel' = {}
    BY <1>0, <1>1, <1>2, <1>3 DEF Is, StackShape
  <2> QED BY <1>1, <1>2, <1>4, <2>1, StepShape
<1>10. trapped' = FALSE
  <2>1. Unclaimed(T, T.arg)
    BY <1>1, <1>2 DEF Unclaimed
  <2> QED BY <1>0, <1>1, <1>2, <2>1 DEF SlotsOnce, Claim
<1>6. NestingTypeOK' /\ ~trapped'
  BY <1>0, <1>1, <1>2, <1>5, <1>10 DEF NestingTypeOK
<1>7. Counts'
  <2>1. Busy(U) => Outside(f)
    BY <1>1, <1>2, <1>3, Below DEF Outside, Is, InLock, Draining, Sweeping
  <2> QED BY <1>0, <1>1, <1>2, <1>3, <1>5, <2>1, StepCounts DEF Is, Busy, Locks, Draining
<1>8. LocksHeld'
  BY <1>0, <1>1, <1>2, <1>3, <1>5, StepLocks DEF Is, Holds, Sweeping, Masked
<1>9. SlotsOnce'
  <2>1. \A s \in Slots : (Has(f, s) <=> Has(T, s)) /\ ~Unclaimed(f, s) /\ (Unclaimed(T, s) <=> s = T.arg)
    BY <1>1, <1>2, <1>3 DEF Is, Has, Unclaimed, InLock, FrameOK
  <2>2. Available' = Available /\ Unflushed' = Unflushed
    BY <1>1, <1>2, <1>3, <1>5, Idle DEF Is, Returns, Flushes, Available, Unflushed, InLock, Outside
  <2>3. ASSUME NEW s \in Slots
        PROVE  One(s \in held', s \in left', s \in free', s \in queued', s \in Available',
                   s \in Unflushed', s \in Entries, Has(U, s), Has(f, s))
    <3>1. One(s \in held, s \in left, s \in free, s \in queued, s \in Available,
              s \in Unflushed, s \in Entries, Has(U, s), Has(T, s))
      BY <1>0 DEF SlotsOnce
    <3> QED BY <1>2, <2>1, <2>2, <3>1 DEF One
  <2>4. ASSUME NEW s \in Slots
        PROVE  s \in live' <=> s \in held' \cup left' \cup Entries \/ Unclaimed(U, s) \/ Unclaimed(f, s)
    <3>1. s \in live <=> s \in held \cup left \cup Entries \/ Unclaimed(U, s) \/ Unclaimed(T, s)
      BY <1>0 DEF SlotsOnce
    <3>2. One(s \in held, s \in left, s \in free, s \in queued, s \in Available,
              s \in Unflushed, s \in Entries, Has(U, s), Has(T, s))
      BY <1>0 DEF SlotsOnce
    <3>3. (Unclaimed(U, s) => Has(U, s)) /\ (Unclaimed(T, s) => Has(T, s))
      BY DEF Has, Unclaimed
    <3>4. Unclaimed(T, s) => s \notin held /\ s \notin left /\ s \notin Entries /\ ~Unclaimed(U, s)
      BY <3>2, <3>3 DEF One
    <3> QED BY <1>2, <2>1, <3>1, <3>4
  <2>5. /\ U.cached => avail' = {} \/ U.at \in Draining \cup {"leave"}
        /\ f.cached => avail' = {} \/ f.at \in Draining \cup {"leave"}
    BY <1>0, <1>1, <1>2, <1>3, Idle DEF Is, SlotsOnce, FrameOK, Before
  <2>6. f.at # "read"
    BY <1>2, <1>3 DEF Is
  <2> QED BY <1>0, <1>2, <1>5, <2>3, <2>4, <2>5, <2>6, StepOnce
<1> QED BY <1>5, <1>6, <1>7, <1>8, <1>9 DEF NestInv

LEMMA TakeCachedStep ==
  ASSUME NestInv, TakeCached, NEW x \in avail, avail' = avail \ {x}, MadeLive(x)
  PROVE  NestInv'
<1> DEFINE f == [Top EXCEPT !.at = "leave"]
<1>0. NestingTypeOK /\ ~trapped /\ StackShape /\ Counts /\ LocksHeld /\ SlotsOnce
  BY DEF NestInv
<1>1. /\ stack # <<>> /\ T = Top /\ T.at = "choose" /\ Top.kind # "handler"
      /\ FrameOK(T) /\ T \in FrameType /\ U \in FrameType
  BY RunningTop DEF TakeCached
<1>2. /\ Becomes(f)
      /\ UNCHANGED <<cache, rel, depth, locks, count, deferred, free, queued, locked, sweeping, masked, signals, left, trapped, torn>>
      /\ "leave" \in Places /\ ~Busy(U) /\ T.kind = "alloc" /\ x \in avail /\ avail' = avail \ {x}
      /\ live' = live \cup {x} /\ held' = held \cup {x} /\ x \in Slots
  <2>1. ~Busy(U)
    BY <1>1, Below DEF TakeCached, Draining
  <2> QED BY <1>0, <1>1, <2>1
          DEF TakeCached, Go, Places, MadeLive, NestingTypeOK, cacheVars, nestVars, deferVars,
              heapVars, lockVars, progVars
<1>3. Is(f, T, "leave", T.self, T.got, T.n, T.job, T.cached, T.draining, T.swept, T.back)
  BY <1>1, <1>2, FieldTypes, BecomingAt
<1> HIDE DEF f
<1>4. FrameOK(f)
  BY <1>1, <1>2, <1>3 DEF FrameOK, Is, InLock, Draining, Before
<1>5. /\ StackShape' /\ U' = U /\ T' = f /\ (Handled' <=> Handled) /\ Len(stack') = Len(stack)
      /\ \A i \in 1 .. Len(stack') : stack'[i] \in FrameType
  <2>1. /\ f.kind = T.kind /\ (f.self \/ f.cached => cache = "made")
        /\ Len(stack) >= 2 => f.self \/ f.at \in {"enter", "defer"}
        /\ f.at = "map" => cache = "none"
        /\ T.self => f.self
        /\ cache = "none" => avail' = {} /\ rel' = {}
    BY <1>0, <1>1, <1>2, <1>3 DEF Is, StackShape
  <2> QED BY <1>1, <1>2, <1>4, <2>1, StepShape
<1>6. NestingTypeOK' /\ ~trapped'
  BY <1>0, <1>1, <1>2, <1>5 DEF NestingTypeOK
<1>7. Counts'
  <2>1. Busy(U) => Outside(f)
    BY <1>1, <1>2, <1>3, Below DEF Outside, Is, InLock, Draining, Sweeping
  <2> QED BY <1>0, <1>1, <1>2, <1>3, <1>5, <2>1, StepCounts DEF Is, Busy, Locks, Draining
<1>8. LocksHeld'
  BY <1>0, <1>1, <1>2, <1>3, <1>5, StepLocks DEF Is, Holds, Sweeping, Masked
<1>9. SlotsOnce'
  <2>1. \A s \in Slots : ~Has(f, s) /\ ~Has(T, s) /\ ~Unclaimed(f, s) /\ ~Unclaimed(T, s)
    BY <1>1, <1>2, <1>3 DEF Is, Has, Unclaimed, InLock, FrameOK
  <2>2. Available' = Available \ {x} /\ x \in Available /\ Unflushed' = Unflushed
    BY <1>1, <1>2, <1>3, <1>5, Idle DEF Is, Returns, Flushes, Available, Unflushed, InLock, Outside
  <2>3. ASSUME NEW s \in Slots
        PROVE  One(s \in held', s \in left', s \in free', s \in queued', s \in Available',
                   s \in Unflushed', s \in Entries, Has(U, s), Has(f, s))
    <3>1. One(s \in held, s \in left, s \in free, s \in queued, s \in Available,
              s \in Unflushed, s \in Entries, Has(U, s), Has(T, s))
      BY <1>0 DEF SlotsOnce
    <3> QED BY <1>2, <2>1, <2>2, <3>1 DEF One
  <2>4. ASSUME NEW s \in Slots
        PROVE  s \in live' <=> s \in held' \cup left' \cup Entries \/ Unclaimed(U, s) \/ Unclaimed(f, s)
    <3>1. s \in live <=> s \in held \cup left \cup Entries \/ Unclaimed(U, s) \/ Unclaimed(T, s)
      BY <1>0 DEF SlotsOnce
    <3> QED BY <1>2, <2>1, <3>1
  <2>5. /\ U.cached => avail' = {} \/ U.at \in Draining \cup {"leave"}
        /\ f.cached => avail' = {} \/ f.at \in Draining \cup {"leave"}
    BY <1>0, <1>1, <1>2, <1>3, Idle DEF Is, SlotsOnce
  <2>6. f.at # "read"
    BY <1>2, <1>3 DEF Is
  <2> QED BY <1>0, <1>2, <1>5, <2>3, <2>4, <2>5, <2>6, StepOnce
<1> QED BY <1>5, <1>6, <1>7, <1>8, <1>9 DEF NestInv

LEMMA RefilledStep ==
  ASSUME NestInv, Refilled, NEW x \in Top.got, avail' = Top.got \ {x}, MadeLive(x), Go("leave"),
         UNCHANGED <<cache, rel>>
  PROVE  NestInv'
<1> DEFINE f == [Top EXCEPT !.at = "leave"]
<1>0. NestingTypeOK /\ ~trapped /\ StackShape /\ Counts /\ LocksHeld /\ SlotsOnce
  BY DEF NestInv
<1>1. /\ stack # <<>> /\ T = Top /\ T.at = "filled" /\ Top.kind # "handler"
      /\ FrameOK(T) /\ T \in FrameType /\ U \in FrameType
  BY RunningTop DEF Refilled
<1>2. /\ Becomes(f)
      /\ UNCHANGED <<cache, rel, depth, locks, count, deferred, free, queued, locked, sweeping, masked, signals, left, trapped, torn>>
      /\ "leave" \in Places /\ ~Busy(U) /\ T.kind = "alloc" /\ x \in T.got /\ avail' = T.got \ {x}
      /\ live' = live \cup {x} /\ held' = held \cup {x} /\ x \in Slots /\ T.got \subseteq Slots
      /\ avail = {} /\ T.cached
  BY <1>0, <1>1, Below, FieldTypes
     DEF Refilled, Go, Places, MadeLive, FrameOK, Outside, SlotsOnce, Draining, cacheVars, nestVars,
         deferVars, heapVars, lockVars, progVars
<1>3. Is(f, T, "leave", T.self, T.got, T.n, T.job, T.cached, T.draining, T.swept, T.back)
  BY <1>1, <1>2, FieldTypes, BecomingAt
<1> HIDE DEF f
<1>4. FrameOK(f)
  BY <1>1, <1>2, <1>3 DEF FrameOK, Is, InLock, Draining, Before
<1>5. /\ StackShape' /\ U' = U /\ T' = f /\ (Handled' <=> Handled) /\ Len(stack') = Len(stack)
      /\ \A i \in 1 .. Len(stack') : stack'[i] \in FrameType
  <2>1. /\ f.kind = T.kind /\ (f.self \/ f.cached => cache = "made")
        /\ Len(stack) >= 2 => f.self \/ f.at \in {"enter", "defer"}
        /\ f.at = "map" => cache = "none"
        /\ T.self => f.self
        /\ cache = "none" => avail' = {} /\ rel' = {}
    BY <1>0, <1>1, <1>2, <1>3, Below DEF Is, StackShape
  <2> QED BY <1>1, <1>2, <1>4, <2>1, StepShape
<1>6. NestingTypeOK' /\ ~trapped'
  BY <1>0, <1>1, <1>2, <1>5 DEF NestingTypeOK
<1>7. Counts'
  <2>1. Busy(U) => Outside(f)
    BY <1>1, <1>2, <1>3, Below DEF Outside, Is, InLock, Draining, Sweeping
  <2> QED BY <1>0, <1>1, <1>2, <1>3, <1>5, <2>1, StepCounts DEF Is, Busy, Locks, Draining
<1>8. LocksHeld'
  BY <1>0, <1>1, <1>2, <1>3, <1>5, StepLocks DEF Is, Holds, Sweeping, Masked
<1>9. SlotsOnce'
  <2>1. \A s \in Slots : (Has(T, s) <=> s \in T.got) /\ ~Has(f, s) /\ ~Unclaimed(f, s) /\ ~Unclaimed(T, s)
    BY <1>1, <1>2, <1>3 DEF Is, Has, Unclaimed, InLock, FrameOK
  <2>2. Available = {} /\ Available' = T.got \ {x} /\ Unflushed' = Unflushed
    BY <1>1, <1>2, <1>3, <1>5, Idle DEF Is, Returns, Flushes, Available, Unflushed, InLock, Outside
  <2>3. ASSUME NEW s \in Slots
        PROVE  One(s \in held', s \in left', s \in free', s \in queued', s \in Available',
                   s \in Unflushed', s \in Entries, Has(U, s), Has(f, s))
    <3>1. One(s \in held, s \in left, s \in free, s \in queued, s \in Available,
              s \in Unflushed, s \in Entries, Has(U, s), Has(T, s))
      BY <1>0 DEF SlotsOnce
    <3> QED BY <1>2, <2>1, <2>2, <3>1 DEF One
  <2>4. ASSUME NEW s \in Slots
        PROVE  s \in live' <=> s \in held' \cup left' \cup Entries \/ Unclaimed(U, s) \/ Unclaimed(f, s)
    <3>1. s \in live <=> s \in held \cup left \cup Entries \/ Unclaimed(U, s) \/ Unclaimed(T, s)
      BY <1>0 DEF SlotsOnce
    <3> QED BY <1>2, <2>1, <3>1
  <2>5. /\ U.cached => avail' = {} \/ U.at \in Draining \cup {"leave"}
        /\ f.cached => avail' = {} \/ f.at \in Draining \cup {"leave"}
    BY <1>0, <1>1, <1>2, <1>3, Idle DEF Is, SlotsOnce
  <2>6. f.at # "read"
    BY <1>2, <1>3 DEF Is
  <2> QED BY <1>0, <1>2, <1>5, <2>3, <2>4, <2>5, <2>6, StepOnce
<1> QED BY <1>5, <1>6, <1>7, <1>8, <1>9 DEF NestInv

LEMMA TakeUncachedStep ==
  ASSUME NestInv, TakeUncached, NEW x \in Top.got, MadeLive(x), Go("leave")
  PROVE  NestInv'
<1> DEFINE f == [Top EXCEPT !.at = "leave"]
<1>0. NestingTypeOK /\ ~trapped /\ StackShape /\ Counts /\ LocksHeld /\ SlotsOnce
  BY DEF NestInv
<1>1. /\ stack # <<>> /\ T = Top /\ T.at = "have" /\ Top.kind # "handler"
      /\ FrameOK(T) /\ T \in FrameType /\ U \in FrameType
  BY RunningTop DEF TakeUncached
<1>2. /\ Becomes(f)
      /\ UNCHANGED <<cache, avail, rel, depth, locks, count, deferred, free, queued, locked, sweeping, masked, signals, left, trapped, torn>>
      /\ "leave" \in Places /\ T.kind = "alloc" /\ T.got = {x} /\ live' = live \cup {x}
      /\ held' = held \cup {x} /\ x \in Slots
  BY <1>1, FieldTypes
     DEF TakeUncached, Go, Places, MadeLive, FrameOK, cacheVars, nestVars, deferVars, heapVars,
         lockVars, progVars
<1>3. Is(f, T, "leave", T.self, T.got, T.n, T.job, T.cached, T.draining, T.swept, T.back)
  BY <1>1, <1>2, FieldTypes, BecomingAt
<1> HIDE DEF f
<1>4. FrameOK(f)
  BY <1>1, <1>2, <1>3 DEF FrameOK, Is, InLock, Draining, Before
<1>5. /\ StackShape' /\ U' = U /\ T' = f /\ (Handled' <=> Handled) /\ Len(stack') = Len(stack)
      /\ \A i \in 1 .. Len(stack') : stack'[i] \in FrameType
  <2>1. /\ f.kind = T.kind /\ (f.self \/ f.cached => cache = "made")
        /\ Len(stack) >= 2 => f.self \/ f.at \in {"enter", "defer"}
        /\ f.at = "map" => cache = "none"
        /\ T.self => f.self
        /\ cache = "none" => avail' = {} /\ rel' = {}
    BY <1>0, <1>1, <1>2, <1>3 DEF Is, StackShape
  <2> QED BY <1>1, <1>2, <1>4, <2>1, StepShape
<1>6. NestingTypeOK' /\ ~trapped'
  BY <1>0, <1>1, <1>2, <1>5 DEF NestingTypeOK
<1>7. Counts'
  <2>1. Busy(U) => Outside(f)
    BY <1>1, <1>2, <1>3, Below DEF Outside, Is, InLock, Draining, Sweeping
  <2> QED BY <1>0, <1>1, <1>2, <1>3, <1>5, <2>1, StepCounts DEF Is, Busy, Locks, Draining
<1>8. LocksHeld'
  BY <1>0, <1>1, <1>2, <1>3, <1>5, StepLocks DEF Is, Holds, Sweeping, Masked
<1>9. SlotsOnce'
  <2>1. \A s \in Slots : (Has(T, s) <=> s = x) /\ ~Has(f, s) /\ ~Unclaimed(f, s) /\ ~Unclaimed(T, s)
    BY <1>1, <1>2, <1>3 DEF Is, Has, Unclaimed, InLock, FrameOK
  <2>2. Available' = Available /\ Unflushed' = Unflushed
    BY <1>1, <1>2, <1>3, <1>5, Idle DEF Is, Returns, Flushes, Available, Unflushed, InLock, Outside
  <2>3. ASSUME NEW s \in Slots
        PROVE  One(s \in held', s \in left', s \in free', s \in queued', s \in Available',
                   s \in Unflushed', s \in Entries, Has(U, s), Has(f, s))
    <3>1. One(s \in held, s \in left, s \in free, s \in queued, s \in Available,
              s \in Unflushed, s \in Entries, Has(U, s), Has(T, s))
      BY <1>0 DEF SlotsOnce
    <3> QED BY <1>2, <2>1, <2>2, <3>1 DEF One
  <2>4. ASSUME NEW s \in Slots
        PROVE  s \in live' <=> s \in held' \cup left' \cup Entries \/ Unclaimed(U, s) \/ Unclaimed(f, s)
    <3>1. s \in live <=> s \in held \cup left \cup Entries \/ Unclaimed(U, s) \/ Unclaimed(T, s)
      BY <1>0 DEF SlotsOnce
    <3> QED BY <1>2, <2>1, <3>1
  <2>5. /\ U.cached => avail' = {} \/ U.at \in Draining \cup {"leave"}
        /\ f.cached => avail' = {} \/ f.at \in Draining \cup {"leave"}
    BY <1>0, <1>1, <1>2, <1>3, Idle DEF Is, SlotsOnce
  <2>6. f.at # "read"
    BY <1>2, <1>3 DEF Is
  <2> QED BY <1>0, <1>2, <1>5, <2>3, <2>4, <2>5, <2>6, StepOnce
<1> QED BY <1>5, <1>6, <1>7, <1>8, <1>9 DEF NestInv

LEMMA FullCacheStep ==
  ASSUME NestInv, ChooseFree, Cached, rel' = rel \cup {Top.arg}, Section("flush")
  PROVE  NestInv'
<1> DEFINE f == [Top EXCEPT !.at = "take", !.job = "flush"]
<1>0. NestingTypeOK /\ ~trapped /\ StackShape /\ Counts /\ LocksHeld /\ SlotsOnce
  BY DEF NestInv
<1>1. /\ stack # <<>> /\ T = Top /\ T.at = "choose" /\ Top.kind # "handler"
      /\ FrameOK(T) /\ T \in FrameType /\ U \in FrameType
  BY RunningTop DEF ChooseFree
<1>2. /\ Becomes(f)
      /\ UNCHANGED <<cache, avail, depth, locks, count, deferred, free, queued, live, locked, sweeping, masked, signals, held, left, trapped, torn>>
      /\ "take" \in Places /\ "flush" \in Jobs /\ T.kind = "free" /\ T.arg \in Slots /\ ~T.cached /\ rel' = rel \cup {T.arg}
      /\ ~Busy(U) /\ cache = "made"
  <2>1. ~Busy(U)
    BY <1>1, Below DEF Draining
  <2> QED BY <1>1, <2>1
          DEF ChooseFree, Go, Section, Places, Jobs, FrameOK, Before, Cached, OwnCache, cacheVars,
              nestVars, deferVars, heapVars, lockVars, progVars
<1>3. Is(f, T, "take", T.self, T.got, T.n, "flush", T.cached, T.draining, T.swept, T.back)
  BY <1>1, <1>2, FieldTypes, BecomingJob
<1> HIDE DEF f
<1>4. FrameOK(f)
  BY <1>1, <1>2, <1>3 DEF FrameOK, Is, InLock, Draining, Before
<1>5. /\ StackShape' /\ U' = U /\ T' = f /\ (Handled' <=> Handled) /\ Len(stack') = Len(stack)
      /\ \A i \in 1 .. Len(stack') : stack'[i] \in FrameType
  <2>1. /\ f.kind = T.kind /\ (f.self \/ f.cached => cache = "made")
        /\ Len(stack) >= 2 => f.self \/ f.at \in {"enter", "defer"}
        /\ f.at = "map" => cache = "none"
        /\ T.self => f.self
        /\ cache = "none" => avail' = {} /\ rel' = {}
    BY <1>0, <1>1, <1>2, <1>3 DEF Is, StackShape
  <2> QED BY <1>1, <1>2, <1>4, <2>1, StepShape
<1>6. NestingTypeOK' /\ ~trapped'
  BY <1>0, <1>1, <1>2, <1>5 DEF NestingTypeOK
<1>7. Counts'
  <2>1. Busy(U) => Outside(f)
    BY <1>1, <1>2, <1>3, Below DEF Outside, Is, InLock, Draining, Sweeping
  <2> QED BY <1>0, <1>1, <1>2, <1>3, <1>5, <2>1, StepCounts DEF Is, Busy, Locks, Draining
<1>8. LocksHeld'
  BY <1>0, <1>1, <1>2, <1>3, <1>5, StepLocks DEF Is, Holds, Sweeping, Masked
<1>9. SlotsOnce'
  <2>1. \A s \in Slots : (Has(T, s) <=> s = T.arg) /\ ~Has(f, s) /\ ~Unclaimed(f, s) /\ ~Unclaimed(T, s)
    BY <1>1, <1>2, <1>3 DEF Is, Has, Unclaimed, InLock, FrameOK
  <2>2. Available' = Available /\ Unflushed = rel /\ Unflushed' = rel'
    BY <1>1, <1>2, <1>3, <1>5, Idle DEF Is, Returns, Flushes, Available, Unflushed, InLock, Outside
  <2>3. ASSUME NEW s \in Slots
        PROVE  One(s \in held', s \in left', s \in free', s \in queued', s \in Available',
                   s \in Unflushed', s \in Entries, Has(U, s), Has(f, s))
    <3>1. One(s \in held, s \in left, s \in free, s \in queued, s \in Available,
              s \in Unflushed, s \in Entries, Has(U, s), Has(T, s))
      BY <1>0 DEF SlotsOnce
    <3> QED BY <1>2, <2>1, <2>2, <3>1 DEF One
  <2>4. ASSUME NEW s \in Slots
        PROVE  s \in live' <=> s \in held' \cup left' \cup Entries \/ Unclaimed(U, s) \/ Unclaimed(f, s)
    <3>1. s \in live <=> s \in held \cup left \cup Entries \/ Unclaimed(U, s) \/ Unclaimed(T, s)
      BY <1>0 DEF SlotsOnce
    <3> QED BY <1>2, <2>1, <3>1
  <2>5. /\ U.cached => avail' = {} \/ U.at \in Draining \cup {"leave"}
        /\ f.cached => avail' = {} \/ f.at \in Draining \cup {"leave"}
    BY <1>0, <1>1, <1>2, <1>3, Idle DEF Is, SlotsOnce
  <2>6. f.at # "read"
    BY <1>2, <1>3 DEF Is
  <2> QED BY <1>0, <1>2, <1>5, <2>3, <2>4, <2>5, <2>6, StepOnce
<1> QED BY <1>5, <1>6, <1>7, <1>8, <1>9 DEF NestInv

LEMMA ToCacheStep ==
  ASSUME NestInv, ChooseFree, Cached, rel' = rel \cup {Top.arg}, Go("leave")
  PROVE  NestInv'
<1> DEFINE f == [Top EXCEPT !.at = "leave"]
<1>0. NestingTypeOK /\ ~trapped /\ StackShape /\ Counts /\ LocksHeld /\ SlotsOnce
  BY DEF NestInv
<1>1. /\ stack # <<>> /\ T = Top /\ T.at = "choose" /\ Top.kind # "handler"
      /\ FrameOK(T) /\ T \in FrameType /\ U \in FrameType
  BY RunningTop DEF ChooseFree
<1>2. /\ Becomes(f)
      /\ UNCHANGED <<cache, avail, depth, locks, count, deferred, free, queued, live, locked, sweeping, masked, signals, held, left, trapped, torn>>
      /\ "leave" \in Places /\ T.kind = "free" /\ T.arg \in Slots /\ ~T.cached /\ rel' = rel \cup {T.arg}
      /\ ~Busy(U) /\ cache = "made"
  <2>1. ~Busy(U)
    BY <1>1, Below DEF Draining
  <2> QED BY <1>1, <2>1
          DEF ChooseFree, Go, Section, Places, Jobs, FrameOK, Before, Cached, OwnCache, cacheVars,
              nestVars, deferVars, heapVars, lockVars, progVars
<1>3. Is(f, T, "leave", T.self, T.got, T.n, T.job, T.cached, T.draining, T.swept, T.back)
  BY <1>1, <1>2, FieldTypes, BecomingAt
<1> HIDE DEF f
<1>4. FrameOK(f)
  BY <1>1, <1>2, <1>3 DEF FrameOK, Is, InLock, Draining, Before
<1>5. /\ StackShape' /\ U' = U /\ T' = f /\ (Handled' <=> Handled) /\ Len(stack') = Len(stack)
      /\ \A i \in 1 .. Len(stack') : stack'[i] \in FrameType
  <2>1. /\ f.kind = T.kind /\ (f.self \/ f.cached => cache = "made")
        /\ Len(stack) >= 2 => f.self \/ f.at \in {"enter", "defer"}
        /\ f.at = "map" => cache = "none"
        /\ T.self => f.self
        /\ cache = "none" => avail' = {} /\ rel' = {}
    BY <1>0, <1>1, <1>2, <1>3 DEF Is, StackShape
  <2> QED BY <1>1, <1>2, <1>4, <2>1, StepShape
<1>6. NestingTypeOK' /\ ~trapped'
  BY <1>0, <1>1, <1>2, <1>5 DEF NestingTypeOK
<1>7. Counts'
  <2>1. Busy(U) => Outside(f)
    BY <1>1, <1>2, <1>3, Below DEF Outside, Is, InLock, Draining, Sweeping
  <2> QED BY <1>0, <1>1, <1>2, <1>3, <1>5, <2>1, StepCounts DEF Is, Busy, Locks, Draining
<1>8. LocksHeld'
  BY <1>0, <1>1, <1>2, <1>3, <1>5, StepLocks DEF Is, Holds, Sweeping, Masked
<1>9. SlotsOnce'
  <2>1. \A s \in Slots : (Has(T, s) <=> s = T.arg) /\ ~Has(f, s) /\ ~Unclaimed(f, s) /\ ~Unclaimed(T, s)
    BY <1>1, <1>2, <1>3 DEF Is, Has, Unclaimed, InLock, FrameOK
  <2>2. Available' = Available /\ Unflushed = rel /\ Unflushed' = rel'
    BY <1>1, <1>2, <1>3, <1>5, Idle DEF Is, Returns, Flushes, Available, Unflushed, InLock, Outside
  <2>3. ASSUME NEW s \in Slots
        PROVE  One(s \in held', s \in left', s \in free', s \in queued', s \in Available',
                   s \in Unflushed', s \in Entries, Has(U, s), Has(f, s))
    <3>1. One(s \in held, s \in left, s \in free, s \in queued, s \in Available,
              s \in Unflushed, s \in Entries, Has(U, s), Has(T, s))
      BY <1>0 DEF SlotsOnce
    <3> QED BY <1>2, <2>1, <2>2, <3>1 DEF One
  <2>4. ASSUME NEW s \in Slots
        PROVE  s \in live' <=> s \in held' \cup left' \cup Entries \/ Unclaimed(U, s) \/ Unclaimed(f, s)
    <3>1. s \in live <=> s \in held \cup left \cup Entries \/ Unclaimed(U, s) \/ Unclaimed(T, s)
      BY <1>0 DEF SlotsOnce
    <3> QED BY <1>2, <2>1, <3>1
  <2>5. /\ U.cached => avail' = {} \/ U.at \in Draining \cup {"leave"}
        /\ f.cached => avail' = {} \/ f.at \in Draining \cup {"leave"}
    BY <1>0, <1>1, <1>2, <1>3, Idle DEF Is, SlotsOnce
  <2>6. f.at # "read"
    BY <1>2, <1>3 DEF Is
  <2> QED BY <1>0, <1>2, <1>5, <2>3, <2>4, <2>5, <2>6, StepOnce
<1> QED BY <1>5, <1>6, <1>7, <1>8, <1>9 DEF NestInv

LEMMA DrainFlushed ==
  ASSUME NestInv, Flushed, Top.draining
  PROVE  NestInv'
<1> DEFINE f == [Top EXCEPT !.at = "returning", !.got = avail]
<1>0. NestingTypeOK /\ ~trapped /\ StackShape /\ Counts /\ LocksHeld /\ SlotsOnce
  BY DEF NestInv
<1>1. /\ stack # <<>> /\ T = Top /\ T.at = "flushed" /\ Top.kind # "handler"
      /\ FrameOK(T) /\ T \in FrameType /\ U \in FrameType
  BY RunningTop DEF Flushed
<1>2. /\ Becomes(f)
      /\ UNCHANGED <<cache, avail, depth, locks, count, deferred, free, queued, live, locked, sweeping, masked, signals, held, left, trapped, torn>>
      /\ "returning" \in Places /\ avail \in SUBSET Slots /\ rel' = {} /\ ~Busy(U)
  BY <1>0, <1>1, Below
     DEF Flushed, Go, Places, Outside, NestingTypeOK, cacheVars, nestVars, deferVars, heapVars,
         lockVars, progVars
<1>3. Is(f, T, "returning", T.self, avail, T.n, T.job, T.cached, T.draining, T.swept, T.back)
  BY <1>1, <1>2, FieldTypes, BecomingGot
<1> HIDE DEF f
<1>4. FrameOK(f)
  BY <1>1, <1>2, <1>3 DEF FrameOK, Is, InLock, Draining, Before
<1>5. /\ StackShape' /\ U' = U /\ T' = f /\ (Handled' <=> Handled) /\ Len(stack') = Len(stack)
      /\ \A i \in 1 .. Len(stack') : stack'[i] \in FrameType
  <2>1. /\ f.kind = T.kind /\ (f.self \/ f.cached => cache = "made")
        /\ Len(stack) >= 2 => f.self \/ f.at \in {"enter", "defer"}
        /\ f.at = "map" => cache = "none"
        /\ T.self => f.self
        /\ cache = "none" => avail' = {} /\ rel' = {}
    BY <1>0, <1>1, <1>2, <1>3 DEF Is, StackShape
  <2> QED BY <1>1, <1>2, <1>4, <2>1, StepShape
<1>6. NestingTypeOK' /\ ~trapped'
  BY <1>0, <1>1, <1>2, <1>5 DEF NestingTypeOK
<1>7. Counts'
  <2>1. Busy(U) => Outside(f)
    BY <1>1, <1>2, <1>3, Below DEF Outside, Is, InLock, Draining, Sweeping
  <2> QED BY <1>0, <1>1, <1>2, <1>3, <1>5, <2>1, StepCounts DEF Is, Busy, Locks, Draining
<1>8. LocksHeld'
  BY <1>0, <1>1, <1>2, <1>3, <1>5, StepLocks DEF Is, Holds, Sweeping, Masked
<1>9. SlotsOnce'
  <2>1. \A s \in Slots : ~Has(T, s) /\ ~Has(f, s) /\ ~Unclaimed(f, s) /\ ~Unclaimed(T, s)
    BY <1>1, <1>2, <1>3 DEF Is, Has, Unclaimed, InLock, FrameOK
  <2>2. Available' = Available /\ Unflushed = {} /\ Unflushed' = {}
    BY <1>1, <1>2, <1>3, <1>5, Idle DEF Is, Returns, Flushes, Available, Unflushed, InLock, Outside
  <2>3. ASSUME NEW s \in Slots
        PROVE  One(s \in held', s \in left', s \in free', s \in queued', s \in Available',
                   s \in Unflushed', s \in Entries, Has(U, s), Has(f, s))
    <3>1. One(s \in held, s \in left, s \in free, s \in queued, s \in Available,
              s \in Unflushed, s \in Entries, Has(U, s), Has(T, s))
      BY <1>0 DEF SlotsOnce
    <3> QED BY <1>2, <2>1, <2>2, <3>1 DEF One
  <2>4. ASSUME NEW s \in Slots
        PROVE  s \in live' <=> s \in held' \cup left' \cup Entries \/ Unclaimed(U, s) \/ Unclaimed(f, s)
    <3>1. s \in live <=> s \in held \cup left \cup Entries \/ Unclaimed(U, s) \/ Unclaimed(T, s)
      BY <1>0 DEF SlotsOnce
    <3> QED BY <1>2, <2>1, <3>1
  <2>5. /\ U.cached => avail' = {} \/ U.at \in Draining \cup {"leave"}
        /\ f.cached => avail' = {} \/ f.at \in Draining \cup {"leave"}
    BY <1>0, <1>1, <1>2, <1>3, Idle DEF Is, SlotsOnce, Draining
  <2>6. f.at # "read"
    BY <1>2, <1>3 DEF Is
  <2> QED BY <1>0, <1>2, <1>5, <2>3, <2>4, <2>5, <2>6, StepOnce
<1> QED BY <1>5, <1>6, <1>7, <1>8, <1>9 DEF NestInv

LEMMA OnlyFlushed ==
  ASSUME NestInv, Flushed, ~Top.draining
  PROVE  NestInv'
<1> DEFINE f == [Top EXCEPT !.at = "budget"]
<1>0. NestingTypeOK /\ ~trapped /\ StackShape /\ Counts /\ LocksHeld /\ SlotsOnce
  BY DEF NestInv
<1>1. /\ stack # <<>> /\ T = Top /\ T.at = "flushed" /\ Top.kind # "handler"
      /\ FrameOK(T) /\ T \in FrameType /\ U \in FrameType
  BY RunningTop DEF Flushed
<1>2. /\ Becomes(f)
      /\ UNCHANGED <<cache, avail, depth, locks, count, deferred, free, queued, live, locked, sweeping, masked, signals, held, left, trapped, torn>>
      /\ "budget" \in Places /\ rel' = {} /\ ~Busy(U)
  BY <1>0, <1>1, Below
     DEF Flushed, Go, Places, Outside, NestingTypeOK, cacheVars, nestVars, deferVars, heapVars,
         lockVars, progVars
<1>3. Is(f, T, "budget", T.self, T.got, T.n, T.job, T.cached, T.draining, T.swept, T.back)
  BY <1>1, <1>2, FieldTypes, BecomingAt
<1> HIDE DEF f
<1>4. FrameOK(f)
  BY <1>1, <1>2, <1>3 DEF FrameOK, Is, InLock, Draining, Before
<1>5. /\ StackShape' /\ U' = U /\ T' = f /\ (Handled' <=> Handled) /\ Len(stack') = Len(stack)
      /\ \A i \in 1 .. Len(stack') : stack'[i] \in FrameType
  <2>1. /\ f.kind = T.kind /\ (f.self \/ f.cached => cache = "made")
        /\ Len(stack) >= 2 => f.self \/ f.at \in {"enter", "defer"}
        /\ f.at = "map" => cache = "none"
        /\ T.self => f.self
        /\ cache = "none" => avail' = {} /\ rel' = {}
    BY <1>0, <1>1, <1>2, <1>3 DEF Is, StackShape
  <2> QED BY <1>1, <1>2, <1>4, <2>1, StepShape
<1>6. NestingTypeOK' /\ ~trapped'
  BY <1>0, <1>1, <1>2, <1>5 DEF NestingTypeOK
<1>7. Counts'
  <2>1. Busy(U) => Outside(f)
    BY <1>1, <1>2, <1>3, Below DEF Outside, Is, InLock, Draining, Sweeping
  <2> QED BY <1>0, <1>1, <1>2, <1>3, <1>5, <2>1, StepCounts DEF Is, Busy, Locks, Draining
<1>8. LocksHeld'
  BY <1>0, <1>1, <1>2, <1>3, <1>5, StepLocks DEF Is, Holds, Sweeping, Masked
<1>9. SlotsOnce'
  <2>1. \A s \in Slots : ~Has(T, s) /\ ~Has(f, s) /\ ~Unclaimed(f, s) /\ ~Unclaimed(T, s)
    BY <1>1, <1>2, <1>3 DEF Is, Has, Unclaimed, InLock, FrameOK
  <2>2. Available' = Available /\ Unflushed = {} /\ Unflushed' = {}
    BY <1>1, <1>2, <1>3, <1>5, Idle DEF Is, Returns, Flushes, Available, Unflushed, InLock, Outside
  <2>3. ASSUME NEW s \in Slots
        PROVE  One(s \in held', s \in left', s \in free', s \in queued', s \in Available',
                   s \in Unflushed', s \in Entries, Has(U, s), Has(f, s))
    <3>1. One(s \in held, s \in left, s \in free, s \in queued, s \in Available,
              s \in Unflushed, s \in Entries, Has(U, s), Has(T, s))
      BY <1>0 DEF SlotsOnce
    <3> QED BY <1>2, <2>1, <2>2, <3>1 DEF One
  <2>4. ASSUME NEW s \in Slots
        PROVE  s \in live' <=> s \in held' \cup left' \cup Entries \/ Unclaimed(U, s) \/ Unclaimed(f, s)
    <3>1. s \in live <=> s \in held \cup left \cup Entries \/ Unclaimed(U, s) \/ Unclaimed(T, s)
      BY <1>0 DEF SlotsOnce
    <3> QED BY <1>2, <2>1, <3>1
  <2>5. /\ U.cached => avail' = {} \/ U.at \in Draining \cup {"leave"}
        /\ f.cached => avail' = {} \/ f.at \in Draining \cup {"leave"}
    BY <1>0, <1>1, <1>2, <1>3, Idle DEF Is, SlotsOnce, Draining
  <2>6. f.at # "read"
    BY <1>2, <1>3 DEF Is
  <2> QED BY <1>0, <1>2, <1>5, <2>3, <2>4, <2>5, <2>6, StepOnce
<1> QED BY <1>5, <1>6, <1>7, <1>8, <1>9 DEF NestInv

LEMMA ReturnOneStep ==
  ASSUME NestInv, ReturnSlots, Top.got # {}
  PROVE  NestInv'
<1> DEFINE f == [Top EXCEPT !.at = "take", !.job = "return"]
<1>0. NestingTypeOK /\ ~trapped /\ StackShape /\ Counts /\ LocksHeld /\ SlotsOnce
  BY DEF NestInv
<1>1. /\ stack # <<>> /\ T = Top /\ T.at = "returning" /\ Top.kind # "handler"
      /\ FrameOK(T) /\ T \in FrameType /\ U \in FrameType
  BY RunningTop DEF ReturnSlots
<1>2. /\ Becomes(f)
      /\ UNCHANGED <<cache, avail, rel, depth, locks, count, deferred, free, queued, live, locked, sweeping, masked, signals, held, left, trapped, torn>>
      /\ "take" \in Places /\ "return" \in Jobs /\ ~Busy(U)
  BY <1>1, Below
     DEF ReturnSlots, Section, Places, Jobs, Outside, cacheVars, nestVars, deferVars, heapVars,
         lockVars, progVars
<1>3. Is(f, T, "take", T.self, T.got, T.n, "return", T.cached, T.draining, T.swept, T.back)
  BY <1>1, <1>2, FieldTypes, BecomingJob
<1> HIDE DEF f
<1>4. FrameOK(f)
  BY <1>1, <1>2, <1>3 DEF FrameOK, Is, InLock, Draining, Before
<1>5. /\ StackShape' /\ U' = U /\ T' = f /\ (Handled' <=> Handled) /\ Len(stack') = Len(stack)
      /\ \A i \in 1 .. Len(stack') : stack'[i] \in FrameType
  <2>1. /\ f.kind = T.kind /\ (f.self \/ f.cached => cache = "made")
        /\ Len(stack) >= 2 => f.self \/ f.at \in {"enter", "defer"}
        /\ f.at = "map" => cache = "none"
        /\ T.self => f.self
        /\ cache = "none" => avail' = {} /\ rel' = {}
    BY <1>0, <1>1, <1>2, <1>3 DEF Is, StackShape
  <2> QED BY <1>1, <1>2, <1>4, <2>1, StepShape
<1>6. NestingTypeOK' /\ ~trapped'
  BY <1>0, <1>1, <1>2, <1>5 DEF NestingTypeOK
<1>7. Counts'
  <2>1. Busy(U) => Outside(f)
    BY <1>1, <1>2, <1>3, Below DEF Outside, Is, InLock, Draining, Sweeping
  <2> QED BY <1>0, <1>1, <1>2, <1>3, <1>5, <2>1, StepCounts DEF Is, Busy, Locks, Draining
<1>8. LocksHeld'
  BY <1>0, <1>1, <1>2, <1>3, <1>5, StepLocks DEF Is, Holds, Sweeping, Masked
<1>9. SlotsOnce'
  <2>1. \A s \in Slots : (Has(f, s) <=> Has(T, s)) /\ (Unclaimed(f, s) <=> Unclaimed(T, s))
    BY <1>1, <1>2, <1>3 DEF Is, Has, Unclaimed, InLock, FrameOK
  <2>2. /\ (Returns(f) <=> Returns(T)) /\ (Returns(T) => f.got = T.got)
        /\ (Flushes(f) <=> Flushes(T)) \/ rel = {}
        /\ f.cached => avail = {} \/ f.at \in Draining \cup {"leave"}
        /\ f.at # "read"
    BY <1>0, <1>1, <1>2, <1>3 DEF Is, Returns, Flushes, Draining, InLock, FrameOK, SlotsOnce
  <2> QED BY <1>0, <1>2, <1>5, <2>1, <2>2, StepSlots
<1> QED BY <1>5, <1>6, <1>7, <1>8, <1>9 DEF NestInv

LEMMA ReturnedStep ==
  ASSUME NestInv, ReturnSlots, Top.got = {}
  PROVE  NestInv'
<1> DEFINE p == IF Top.kind = "drop" THEN "take" ELSE "trysweep"
           f == [Top EXCEPT !.draining = FALSE, !.job = "list", !.at = p]
<1>0. NestingTypeOK /\ ~trapped /\ StackShape /\ Counts /\ LocksHeld /\ SlotsOnce
  BY DEF NestInv
<1>1. /\ stack # <<>> /\ T = Top /\ T.at = "returning" /\ Top.kind # "handler"
      /\ FrameOK(T) /\ T \in FrameType /\ U \in FrameType
  BY RunningTop DEF ReturnSlots
<1>2. /\ Becomes(f)
      /\ UNCHANGED <<cache, rel, depth, locks, count, deferred, free, queued, live, locked, sweeping, masked, signals, held, left, trapped, torn>>
      /\ p \in Places /\ p = (IF T.kind = "drop" THEN "take" ELSE "trysweep") /\ "list" \in Jobs
      /\ avail' = {} /\ T.got = {} /\ ~Busy(U)
  BY <1>1, Below
     DEF ReturnSlots, Places, Jobs, Outside, cacheVars, nestVars, deferVars, heapVars, lockVars,
         progVars
<1>3. Is(f, T, p, T.self, T.got, T.n, "list", T.cached, FALSE, T.swept, T.back)
  BY <1>1, <1>2, FieldTypes, BecomingDrain
<1> HIDE DEF p, f
<1>4. FrameOK(f)
  BY <1>1, <1>2, <1>3 DEF FrameOK, Is, InLock, Draining, Before
<1>5. /\ StackShape' /\ U' = U /\ T' = f /\ (Handled' <=> Handled) /\ Len(stack') = Len(stack)
      /\ \A i \in 1 .. Len(stack') : stack'[i] \in FrameType
  <2>1. /\ f.kind = T.kind /\ (f.self \/ f.cached => cache = "made")
        /\ Len(stack) >= 2 => f.self \/ f.at \in {"enter", "defer"}
        /\ f.at = "map" => cache = "none"
        /\ T.self => f.self
        /\ cache = "none" => avail' = {} /\ rel' = {}
    BY <1>0, <1>1, <1>2, <1>3 DEF Is, StackShape
  <2> QED BY <1>1, <1>2, <1>4, <2>1, StepShape
<1>6. NestingTypeOK' /\ ~trapped'
  BY <1>0, <1>1, <1>2, <1>5 DEF NestingTypeOK
<1>7. Counts'
  <2>1. Busy(U) => Outside(f)
    BY <1>1, <1>2, <1>3, Below DEF Outside, Is, InLock, Draining, Sweeping
  <2> QED BY <1>0, <1>1, <1>2, <1>3, <1>5, <2>1, StepCounts DEF Is, Busy, Locks, Draining
<1>8. LocksHeld'
  BY <1>0, <1>1, <1>2, <1>3, <1>5, StepLocks DEF Is, Holds, Sweeping, Masked
<1>9. SlotsOnce'
  <2>1. \A s \in Slots : ~Has(T, s) /\ ~Has(f, s) /\ ~Unclaimed(f, s) /\ ~Unclaimed(T, s)
    BY <1>1, <1>2, <1>3 DEF Is, Has, Unclaimed, InLock, FrameOK
  <2>2. Available = {} /\ Available' = {} /\ Unflushed' = Unflushed
    BY <1>1, <1>2, <1>3, <1>5, Idle DEF Is, Returns, Flushes, Available, Unflushed, InLock, Outside
  <2>3. ASSUME NEW s \in Slots
        PROVE  One(s \in held', s \in left', s \in free', s \in queued', s \in Available',
                   s \in Unflushed', s \in Entries, Has(U, s), Has(f, s))
    <3>1. One(s \in held, s \in left, s \in free, s \in queued, s \in Available,
              s \in Unflushed, s \in Entries, Has(U, s), Has(T, s))
      BY <1>0 DEF SlotsOnce
    <3> QED BY <1>2, <2>1, <2>2, <3>1 DEF One
  <2>4. ASSUME NEW s \in Slots
        PROVE  s \in live' <=> s \in held' \cup left' \cup Entries \/ Unclaimed(U, s) \/ Unclaimed(f, s)
    <3>1. s \in live <=> s \in held \cup left \cup Entries \/ Unclaimed(U, s) \/ Unclaimed(T, s)
      BY <1>0 DEF SlotsOnce
    <3> QED BY <1>2, <2>1, <3>1
  <2>5. /\ U.cached => avail' = {} \/ U.at \in Draining \cup {"leave"}
        /\ f.cached => avail' = {} \/ f.at \in Draining \cup {"leave"}
    BY <1>0, <1>1, <1>2, <1>3, Idle DEF Is, SlotsOnce
  <2>6. f.at # "read"
    BY <1>2, <1>3 DEF Is
  <2> QED BY <1>0, <1>2, <1>5, <2>3, <2>4, <2>5, <2>6, StepOnce
<1> QED BY <1>5, <1>6, <1>7, <1>8, <1>9 DEF NestInv

LEMMA RecycleStep ==
  ASSUME NestInv, Recycle, NEW S \in SUBSET queued, queued' = queued \ S, free' = free \cup S
  PROVE  NestInv'
<1> DEFINE f == [Top EXCEPT !.at = "unmask"]
<1>0. NestingTypeOK /\ ~trapped /\ StackShape /\ Counts /\ LocksHeld /\ SlotsOnce
  BY DEF NestInv
<1>1. /\ stack # <<>> /\ T = Top /\ T.at = "recycle" /\ Top.kind # "handler"
      /\ FrameOK(T) /\ T \in FrameType /\ U \in FrameType
  BY RunningTop DEF Recycle
<1>2. /\ Becomes(f)
      /\ UNCHANGED <<cache, avail, rel, depth, locks, count, deferred, live, sweeping, masked, signals, held, left, trapped, torn>>
      /\ "unmask" \in Places /\ locked' = locked \ {"region"} /\ S \subseteq queued
      /\ queued' = queued \ S /\ free' = free \cup S
  BY <1>1 DEF Recycle, Go, Places, cacheVars, nestVars, deferVars, heapVars, lockVars, progVars
<1>3. Is(f, T, "unmask", T.self, T.got, T.n, T.job, T.cached, T.draining, T.swept, T.back)
  BY <1>1, <1>2, FieldTypes, BecomingAt
<1> HIDE DEF f
<1>4. FrameOK(f)
  BY <1>1, <1>2, <1>3 DEF FrameOK, Is, InLock, Draining, Before
<1>5. /\ StackShape' /\ U' = U /\ T' = f /\ (Handled' <=> Handled) /\ Len(stack') = Len(stack)
      /\ \A i \in 1 .. Len(stack') : stack'[i] \in FrameType
  <2>1. /\ f.kind = T.kind /\ (f.self \/ f.cached => cache = "made")
        /\ Len(stack) >= 2 => f.self \/ f.at \in {"enter", "defer"}
        /\ f.at = "map" => cache = "none"
        /\ T.self => f.self
        /\ cache = "none" => avail' = {} /\ rel' = {}
    BY <1>0, <1>1, <1>2, <1>3 DEF Is, StackShape
  <2> QED BY <1>1, <1>2, <1>4, <2>1, StepShape
<1>6. NestingTypeOK' /\ ~trapped'
  BY <1>0, <1>1, <1>2, <1>5 DEF NestingTypeOK
<1>7. Counts'
  <2>1. Busy(U) => Outside(f)
    BY <1>1, <1>2, <1>3, Below DEF Outside, Is, InLock, Draining, Sweeping
  <2> QED BY <1>0, <1>1, <1>2, <1>3, <1>5, <2>1, StepCounts DEF Is, Busy, Locks, Draining
<1>8. LocksHeld'
  <2>1. Holds(T) = {"region"} /\ Holds(f) = {} /\ Holds(U) = {} /\ f.at = "unmask"
    BY <1>1, <1>3, Below DEF Is, Holds
  <2> QED BY <1>0, <1>1, <1>2, <1>5, <2>1 DEF LocksHeld, Sweeping, Masked
<1>9. SlotsOnce'
  <2>1. \A s \in Slots : ~Has(T, s) /\ ~Has(f, s) /\ ~Unclaimed(f, s) /\ ~Unclaimed(T, s)
    BY <1>1, <1>2, <1>3 DEF Is, Has, Unclaimed, InLock, FrameOK
  <2>2. Available' = Available /\ Unflushed' = Unflushed
    BY <1>1, <1>2, <1>3, <1>5, Idle DEF Is, Returns, Flushes, Available, Unflushed, InLock, Outside
  <2>3. ASSUME NEW s \in Slots
        PROVE  One(s \in held', s \in left', s \in free', s \in queued', s \in Available',
                   s \in Unflushed', s \in Entries, Has(U, s), Has(f, s))
    <3>1. One(s \in held, s \in left, s \in free, s \in queued, s \in Available,
              s \in Unflushed, s \in Entries, Has(U, s), Has(T, s))
      BY <1>0 DEF SlotsOnce
    <3> QED BY <1>2, <2>1, <2>2, <3>1 DEF One
  <2>4. ASSUME NEW s \in Slots
        PROVE  s \in live' <=> s \in held' \cup left' \cup Entries \/ Unclaimed(U, s) \/ Unclaimed(f, s)
    <3>1. s \in live <=> s \in held \cup left \cup Entries \/ Unclaimed(U, s) \/ Unclaimed(T, s)
      BY <1>0 DEF SlotsOnce
    <3> QED BY <1>2, <2>1, <3>1
  <2>5. /\ U.cached => avail' = {} \/ U.at \in Draining \cup {"leave"}
        /\ f.cached => avail' = {} \/ f.at \in Draining \cup {"leave"}
    BY <1>0, <1>1, <1>2, <1>3, Idle DEF Is, SlotsOnce, Draining
  <2>6. f.at # "read"
    BY <1>2, <1>3 DEF Is
  <2> QED BY <1>0, <1>2, <1>5, <2>3, <2>4, <2>5, <2>6, StepOnce
<1> QED BY <1>5, <1>6, <1>7, <1>8, <1>9 DEF NestInv

\* What the critical section of a job does with the slots: S is what the
\* frame has after it.
Moved(S) ==
    \/ /\ T.job \in {"refill", "pop"} /\ S \subseteq free /\ free' = free \ S /\ queued' = queued
       /\ T.job = "pop" => \A x, y \in S : x = y
    \/ T.job = "flush" /\ S = {} /\ queued' = queued \cup rel /\ free' = free
    \/ T.job = "retire" /\ S = {} /\ queued' = queued \cup {T.arg} /\ free' = free
    \/ /\ T.job = "return" /\ queued' = queued
       /\ \E x \in T.got : free' = free \cup {x} /\ S = T.got \ {x}
    \/ T.job = "list" /\ S = {} /\ queued' = queued /\ free' = free

LEMMA WorkMoves ==
  ASSUME NestInv, Work
  PROVE  \E S \in SUBSET Slots : Moved(S) /\ Becomes([Top EXCEPT !.at = "give", !.got = S])
<1>1. T = Top /\ T.at = "work" /\ FrameOK(T) /\ T \in FrameType
  <2>1. Running({"work"})
    BY Zenon DEF Work
  <2> QED BY <2>1, RunningTop
<1>2. T.job \in Jobs \ {"none"} /\ T.got \subseteq Slots
  BY <1>1, FieldTypes DEF FrameOK, InLock
<1>3. free \subseteq Slots
  BY DEF NestInv, NestingTypeOK
<1>4. CASE T.job = "refill"
  <2>1. PICK S \in SUBSET free : /\ free' = free \ S /\ queued' = queued
                                 /\ Becomes([Top EXCEPT !.at = "give", !.got = S])
    BY <1>1, <1>4 DEF Work
  <2> QED BY <1>3, <1>4, <2>1 DEF Moved
<1>5. CASE T.job = "pop"
  <2>1. PICK S \in SUBSET free : /\ Cardinality(S) = (IF free = {} THEN 0 ELSE 1)
                                 /\ free' = free \ S /\ queued' = queued
                                 /\ Becomes([Top EXCEPT !.at = "give", !.got = S])
    BY <1>1, <1>5 DEF Work
  <2>2. IsFiniteSet(S)
    BY <1>3, NestingAssumption, FS_Subset
  <2>3. \A x, y \in S : x = y
    BY <2>1, <2>2, FS_EmptySet, FS_Singleton
  <2> QED BY <1>3, <1>5, <2>1, <2>3 DEF Moved
<1>6. CASE T.job = "flush"
  BY <1>1, <1>6 DEF Work, Moved
<1>7. CASE T.job = "retire"
  BY <1>1, <1>7 DEF Work, Moved
<1>8. CASE T.job = "return"
  <2>1. PICK x \in T.got : /\ free' = free \cup {x} /\ queued' = queued
                           /\ Becomes([Top EXCEPT !.at = "give", !.got = T.got \ {x}])
    BY <1>1, <1>8 DEF Work
  <2>2. T.got \ {x} \in SUBSET Slots /\ Moved(T.got \ {x})
    BY <1>2, <1>8, <2>1 DEF Moved
  <2> QED BY <2>1, <2>2
<1>9. CASE T.job = "list"
  BY <1>1, <1>9 DEF Work, Moved
<1> QED BY <1>2, <1>4, <1>5, <1>6, <1>7, <1>8, <1>9 DEF Jobs

LEMMA WorkStep ==
  ASSUME NestInv, Work, NEW S \in SUBSET Slots, Becomes([Top EXCEPT !.at = "give", !.got = S]), Moved(S)
  PROVE  NestInv'
<1> DEFINE f == [Top EXCEPT !.at = "give", !.got = S]
<1>0. NestingTypeOK /\ ~trapped /\ StackShape /\ Counts /\ LocksHeld /\ SlotsOnce
  BY DEF NestInv
<1>1. /\ stack # <<>> /\ T = Top /\ T.at = "work" /\ Top.kind # "handler"
      /\ FrameOK(T) /\ T \in FrameType /\ U \in FrameType
  <2>1. Running({"work"})
    BY Zenon DEF Work
  <2> QED BY <2>1, RunningTop
<1>2. /\ Becomes(f)
      /\ UNCHANGED <<cache, avail, rel, depth, locks, count, deferred, live, sweeping, masked, signals, held, left, trapped, torn>>
      /\ "give" \in Places /\ Moved(S) /\ locked' = locked \ {LockOf(T.job)}
      /\ (T.job \notin {"pop", "retire"} => ~Busy(U))
  BY <1>1, Below
     DEF Work, Places, Outside, InLock, cacheVars, nestVars, deferVars, heapVars, lockVars,
         progVars
<1>3. Is(f, T, "give", T.self, S, T.n, T.job, T.cached, T.draining, T.swept, T.back)
  BY <1>1, <1>2, FieldTypes, BecomingGot
<1> HIDE DEF f
<1>4. FrameOK(f)
  BY <1>1, <1>2, <1>3 DEF Moved, FrameOK, Is, InLock, Draining, Before
<1>5. /\ StackShape' /\ U' = U /\ T' = f /\ (Handled' <=> Handled) /\ Len(stack') = Len(stack)
      /\ \A i \in 1 .. Len(stack') : stack'[i] \in FrameType
  <2>1. /\ f.kind = T.kind /\ (f.self \/ f.cached => cache = "made")
        /\ Len(stack) >= 2 => f.self \/ f.at \in {"enter", "defer"}
        /\ f.at = "map" => cache = "none"
        /\ T.self => f.self
        /\ cache = "none" => avail' = {} /\ rel' = {}
    BY <1>0, <1>1, <1>2, <1>3 DEF Is, StackShape
  <2> QED BY <1>1, <1>2, <1>4, <2>1, StepShape
<1>6. NestingTypeOK' /\ ~trapped'
  <2>1. T.got \subseteq Slots /\ (T.job = "retire" => T.arg \in Slots)
    BY <1>1, FieldTypes DEF FrameOK, InLock
  <2>2. free' \subseteq Slots /\ queued' \subseteq Slots
    <3>1. free \subseteq Slots /\ queued \subseteq Slots /\ rel \subseteq Slots
      BY <1>0 DEF NestingTypeOK
    <3> QED BY <1>2, <2>1, <3>1 DEF Moved
  <2> QED BY <1>0, <1>2, <1>5, <2>2 DEF NestingTypeOK
<1>7. Counts'
  <2>1. Busy(U) => Outside(f)
    BY <1>1, <1>2, <1>3, Below DEF Outside, Is, InLock, Draining, Sweeping
  <2> QED BY <1>0, <1>1, <1>2, <1>3, <1>5, <2>1, StepCounts DEF Is, Busy, Locks, Draining
<1>8. LocksHeld'
  <2>1. Holds(T) = {LockOf(T.job)} /\ Holds(f) = {} /\ Holds(U) = {} /\ f.at = "give"
    BY <1>1, <1>3, Below DEF Is, Holds
  <2> QED BY <1>0, <1>1, <1>2, <1>5, <2>1 DEF LocksHeld, Sweeping, Masked
<1>9. SlotsOnce'
  <2>1. CASE /\ T.job \in {"refill", "pop"} /\ S \subseteq free /\ free' = free \ S
             /\ queued' = queued
    <3>1. \A s \in Slots : ~Has(T, s) /\ (Has(f, s) <=> s \in S) /\ ~Unclaimed(f, s) /\ ~Unclaimed(T, s)
      BY <1>1, <1>2, <2>1, <1>3 DEF Is, Has, Unclaimed, InLock, FrameOK
    <3>2. Available' = Available /\ Unflushed' = Unflushed
      BY <1>1, <1>2, <2>1, <1>3, <1>5, Idle
         DEF Is, Returns, Flushes, Available, Unflushed, InLock, Outside
    <3>3. ASSUME NEW s \in Slots
          PROVE  One(s \in held', s \in left', s \in free', s \in queued', s \in Available',
                     s \in Unflushed', s \in Entries, Has(U, s), Has(f, s))
      <4>1. One(s \in held, s \in left, s \in free, s \in queued, s \in Available,
                s \in Unflushed, s \in Entries, Has(U, s), Has(T, s))
        BY <1>0 DEF SlotsOnce
      <4> QED BY <1>2, <2>1, <3>1, <3>2, <4>1 DEF One
    <3>4. ASSUME NEW s \in Slots
          PROVE  s \in live' <=> s \in held' \cup left' \cup Entries \/ Unclaimed(U, s) \/ Unclaimed(f, s)
      <4>1. s \in live <=> s \in held \cup left \cup Entries \/ Unclaimed(U, s) \/ Unclaimed(T, s)
        BY <1>0 DEF SlotsOnce
      <4> QED BY <1>2, <2>1, <3>1, <4>1
    <3>5. /\ U.cached => avail' = {} \/ U.at \in Draining \cup {"leave"}
          /\ f.cached => avail' = {} \/ f.at \in Draining \cup {"leave"}
      BY <1>0, <1>1, <1>2, <2>1, <1>3, Idle DEF Is, SlotsOnce, Draining
    <3>6. f.at # "read"
      BY <1>2, <2>1, <1>3 DEF Is
    <3> QED BY <1>0, <1>2, <2>1, <1>5, <3>3, <3>4, <3>5, <3>6, StepOnce
  <2>2. CASE T.job = "flush" /\ S = {} /\ queued' = queued \cup rel /\ free' = free
    <3>1. \A s \in Slots : ~Has(T, s) /\ ~Has(f, s) /\ ~Unclaimed(f, s) /\ ~Unclaimed(T, s)
      BY <1>1, <1>2, <2>2, <1>3 DEF Is, Has, Unclaimed, InLock, FrameOK
    <3>2. Available' = Available /\ Unflushed = rel /\ Unflushed' = {}
      BY <1>1, <1>2, <2>2, <1>3, <1>5, Idle
         DEF Is, Returns, Flushes, Available, Unflushed, InLock, Outside
    <3>3. ASSUME NEW s \in Slots
          PROVE  One(s \in held', s \in left', s \in free', s \in queued', s \in Available',
                     s \in Unflushed', s \in Entries, Has(U, s), Has(f, s))
      <4>1. One(s \in held, s \in left, s \in free, s \in queued, s \in Available,
                s \in Unflushed, s \in Entries, Has(U, s), Has(T, s))
        BY <1>0 DEF SlotsOnce
      <4> QED BY <1>2, <2>2, <3>1, <3>2, <4>1 DEF One
    <3>4. ASSUME NEW s \in Slots
          PROVE  s \in live' <=> s \in held' \cup left' \cup Entries \/ Unclaimed(U, s) \/ Unclaimed(f, s)
      <4>1. s \in live <=> s \in held \cup left \cup Entries \/ Unclaimed(U, s) \/ Unclaimed(T, s)
        BY <1>0 DEF SlotsOnce
      <4> QED BY <1>2, <2>2, <3>1, <4>1
    <3>5. /\ U.cached => avail' = {} \/ U.at \in Draining \cup {"leave"}
          /\ f.cached => avail' = {} \/ f.at \in Draining \cup {"leave"}
      BY <1>0, <1>1, <1>2, <2>2, <1>3, Idle DEF Is, SlotsOnce, Draining
    <3>6. f.at # "read"
      BY <1>2, <2>2, <1>3 DEF Is
    <3> QED BY <1>0, <1>2, <2>2, <1>5, <3>3, <3>4, <3>5, <3>6, StepOnce
  <2>3. CASE T.job = "retire" /\ S = {} /\ queued' = queued \cup {T.arg} /\ free' = free
    <3>1. \A s \in Slots : (Has(T, s) <=> s = T.arg) /\ ~Has(f, s) /\ ~Unclaimed(f, s) /\ ~Unclaimed(T, s)
      BY <1>1, <1>2, <2>3, <1>3 DEF Is, Has, Unclaimed, InLock, FrameOK
    <3>2. Available' = Available /\ Unflushed' = Unflushed
      BY <1>1, <1>2, <2>3, <1>3, <1>5, Idle
         DEF Is, Returns, Flushes, Available, Unflushed, InLock, Outside
    <3>3. ASSUME NEW s \in Slots
          PROVE  One(s \in held', s \in left', s \in free', s \in queued', s \in Available',
                     s \in Unflushed', s \in Entries, Has(U, s), Has(f, s))
      <4>1. One(s \in held, s \in left, s \in free, s \in queued, s \in Available,
                s \in Unflushed, s \in Entries, Has(U, s), Has(T, s))
        BY <1>0 DEF SlotsOnce
      <4> QED BY <1>2, <2>3, <3>1, <3>2, <4>1 DEF One
    <3>4. ASSUME NEW s \in Slots
          PROVE  s \in live' <=> s \in held' \cup left' \cup Entries \/ Unclaimed(U, s) \/ Unclaimed(f, s)
      <4>1. s \in live <=> s \in held \cup left \cup Entries \/ Unclaimed(U, s) \/ Unclaimed(T, s)
        BY <1>0 DEF SlotsOnce
      <4> QED BY <1>2, <2>3, <3>1, <4>1
    <3>5. /\ U.cached => avail' = {} \/ U.at \in Draining \cup {"leave"}
          /\ f.cached => avail' = {} \/ f.at \in Draining \cup {"leave"}
      BY <1>0, <1>1, <1>2, <2>3, <1>3, Idle DEF Is, SlotsOnce, Draining
    <3>6. f.at # "read"
      BY <1>2, <2>3, <1>3 DEF Is
    <3> QED BY <1>0, <1>2, <2>3, <1>5, <3>3, <3>4, <3>5, <3>6, StepOnce
  <2>4. CASE /\ T.job = "return" /\ queued' = queued
             /\ \E x \in T.got : free' = free \cup {x} /\ S = T.got \ {x}
    <3>1. \A s \in Slots : ~Has(T, s) /\ ~Has(f, s) /\ ~Unclaimed(f, s) /\ ~Unclaimed(T, s)
      BY <1>1, <1>2, <2>4, <1>3 DEF Is, Has, Unclaimed, InLock, FrameOK
    <3>2. Available = T.got /\ Available' = S /\ Unflushed' = Unflushed
      BY <1>1, <1>2, <2>4, <1>3, <1>5, Idle
         DEF Is, Returns, Flushes, Available, Unflushed, InLock, Outside
    <3>3. ASSUME NEW s \in Slots
          PROVE  One(s \in held', s \in left', s \in free', s \in queued', s \in Available',
                     s \in Unflushed', s \in Entries, Has(U, s), Has(f, s))
      <4>1. One(s \in held, s \in left, s \in free, s \in queued, s \in Available,
                s \in Unflushed, s \in Entries, Has(U, s), Has(T, s))
        BY <1>0 DEF SlotsOnce
      <4> QED BY <1>2, <2>4, <3>1, <3>2, <4>1 DEF One
    <3>4. ASSUME NEW s \in Slots
          PROVE  s \in live' <=> s \in held' \cup left' \cup Entries \/ Unclaimed(U, s) \/ Unclaimed(f, s)
      <4>1. s \in live <=> s \in held \cup left \cup Entries \/ Unclaimed(U, s) \/ Unclaimed(T, s)
        BY <1>0 DEF SlotsOnce
      <4> QED BY <1>2, <2>4, <3>1, <4>1
    <3>5. /\ U.cached => avail' = {} \/ U.at \in Draining \cup {"leave"}
          /\ f.cached => avail' = {} \/ f.at \in Draining \cup {"leave"}
      BY <1>0, <1>1, <1>2, <2>4, <1>3, Idle DEF Is, SlotsOnce, Draining
    <3>6. f.at # "read"
      BY <1>2, <2>4, <1>3 DEF Is
    <3> QED BY <1>0, <1>2, <2>4, <1>5, <3>3, <3>4, <3>5, <3>6, StepOnce
  <2>5. CASE T.job = "list" /\ S = {} /\ queued' = queued /\ free' = free
    <3>1. \A s \in Slots : (Has(T, s) <=> Has(f, s)) /\ ~Unclaimed(f, s) /\ ~Unclaimed(T, s)
      BY <1>1, <1>2, <2>5, <1>3 DEF Is, Has, Unclaimed, InLock, FrameOK
    <3>2. Available' = Available /\ Unflushed' = Unflushed
      BY <1>1, <1>2, <2>5, <1>3, <1>5, Idle
         DEF Is, Returns, Flushes, Available, Unflushed, InLock, Outside
    <3>3. ASSUME NEW s \in Slots
          PROVE  One(s \in held', s \in left', s \in free', s \in queued', s \in Available',
                     s \in Unflushed', s \in Entries, Has(U, s), Has(f, s))
      <4>1. One(s \in held, s \in left, s \in free, s \in queued, s \in Available,
                s \in Unflushed, s \in Entries, Has(U, s), Has(T, s))
        BY <1>0 DEF SlotsOnce
      <4> QED BY <1>2, <2>5, <3>1, <3>2, <4>1 DEF One
    <3>4. ASSUME NEW s \in Slots
          PROVE  s \in live' <=> s \in held' \cup left' \cup Entries \/ Unclaimed(U, s) \/ Unclaimed(f, s)
      <4>1. s \in live <=> s \in held \cup left \cup Entries \/ Unclaimed(U, s) \/ Unclaimed(T, s)
        BY <1>0 DEF SlotsOnce
      <4> QED BY <1>2, <2>5, <3>1, <4>1
    <3>5. /\ U.cached => avail' = {} \/ U.at \in Draining \cup {"leave"}
          /\ f.cached => avail' = {} \/ f.at \in Draining \cup {"leave"}
      BY <1>0, <1>1, <1>2, <2>5, <1>3, Idle DEF Is, SlotsOnce, Draining
    <3>6. f.at # "read"
      BY <1>2, <2>5, <1>3 DEF Is
    <3> QED BY <1>0, <1>2, <2>5, <1>5, <3>3, <3>4, <3>5, <3>6, StepOnce
  <2> QED BY <1>2, <2>1, <2>2, <2>3, <2>4, <2>5 DEF Moved
<1> QED BY <1>5, <1>6, <1>7, <1>8, <1>9 DEF NestInv

\* The entry that the count no longer covers is the frame's.
LEMMA DecrementStep ==
  ASSUME NestInv, Decrement
  PROVE  NestInv'
<1> DEFINE f == [Top EXCEPT !.at = "read"]
<1>0. NestingTypeOK /\ ~trapped /\ StackShape /\ Counts /\ LocksHeld /\ SlotsOnce
  BY DEF NestInv
<1>1. /\ stack # <<>> /\ T = Top /\ T.at = "decrement" /\ Top.kind # "handler"
      /\ FrameOK(T) /\ T \in FrameType /\ U \in FrameType
  BY RunningTop DEF Decrement
<1>2. /\ Becomes(f)
      /\ UNCHANGED <<cache, avail, rel, depth, locks, deferred, free, queued, live, locked, sweeping, masked, signals, held, left, trapped, torn>>
      /\ "read" \in Places /\ T.n = count /\ count \in 1 .. DeferredLimit /\ count' = count - 1
      /\ T.self /\ signals # 0
  BY <1>0, <1>1, NestingAssumption
     DEF Decrement, Go, Places, FrameOK, Counts, Draining, NestingTypeOK, cacheVars, nestVars,
         deferVars, heapVars, lockVars, progVars
<1>3. Is(f, T, "read", T.self, T.got, T.n, T.job, T.cached, T.draining, T.swept, T.back)
  BY <1>1, <1>2, FieldTypes, BecomingAt
<1> HIDE DEF f
<1>4. FrameOK(f)
  BY <1>1, <1>2, <1>3 DEF FrameOK, Is, InLock, Draining, Before
<1>5. /\ StackShape' /\ U' = U /\ T' = f /\ (Handled' <=> Handled) /\ Len(stack') = Len(stack)
      /\ \A i \in 1 .. Len(stack') : stack'[i] \in FrameType
  <2>1. /\ f.kind = T.kind /\ (f.self \/ f.cached => cache = "made")
        /\ Len(stack) >= 2 => f.self \/ f.at \in {"enter", "defer"}
        /\ f.at = "map" => cache = "none"
        /\ T.self => f.self
        /\ cache = "none" => avail' = {} /\ rel' = {}
    BY <1>0, <1>1, <1>2, <1>3 DEF Is, StackShape
  <2> QED BY <1>1, <1>2, <1>4, <2>1, StepShape
<1>6. NestingTypeOK' /\ ~trapped'
  BY <1>0, <1>1, <1>2, <1>5, NestingAssumption DEF NestingTypeOK
<1>7. Counts'
  <2>1. ~Busy(T) /\ ~Busy(f) /\ ~Locks(T) /\ ~Locks(f) /\ f.at = "read" /\ f.n = count /\ f.self
    BY <1>1, <1>2, <1>3 DEF Busy, Locks, Is, Draining
  <2>2. ~Busy(U) /\ ~Locks(U)
    BY <1>0, <1>1 DEF Counts, Outside, Draining
  <2>3. f.n = count' + 1 /\ (count' # 0 => count # 0)
    BY <1>2, <2>1
  <2> QED BY <1>0, <1>1, <1>2, <1>5, <2>1, <2>2, <2>3 DEF Counts
<1>8. LocksHeld'
  BY <1>0, <1>1, <1>2, <1>3, <1>5, StepLocks DEF Is, Holds, Sweeping, Masked
<1>9. SlotsOnce'
  <2> DEFINE d == deferred[count - 1]
  <2>1. d \in Slots /\ count - 1 \in 0 .. count - 1 /\ deferred' = deferred
    BY <1>0, <1>2 DEF SlotsOnce
  <2>2. /\ \A i \in 0 .. count' - 1 : i \in 0 .. count - 1 /\ i # count - 1
        /\ \A i \in 0 .. count - 1 : i = count - 1 \/ i \in 0 .. count' - 1
    BY <1>2
  <2>3. \A i \in 0 .. count' - 1 : deferred[i] # d
    BY <1>0, <2>1, <2>2 DEF SlotsOnce
  <2>4. \A s : (s \in Entries' <=> s \in Entries /\ s # d) /\ d \in Entries
    <3>1. Entries' = {deferred[i] : i \in 0 .. count' - 1}
      BY <2>1 DEF Entries
    <3> QED BY <2>1, <2>2, <2>3, <3>1 DEF Entries
  <2> HIDE DEF d
  <2>5. /\ \A s \in Slots : /\ (Has(T, s)' <=> s = d) /\ ~Has(T, s)
                            /\ (Unclaimed(T, s)' <=> s = d) /\ ~Unclaimed(T, s)
        /\ \A s \in Slots : (Has(U, s)' <=> Has(U, s)) /\ (Unclaimed(U, s)' <=> Unclaimed(U, s))
    <3>1. T'.at = "read" /\ T'.n = count /\ deferred' = deferred
      BY <1>2, <1>3, <1>5 DEF Is
    <3> QED BY <1>1, <1>5, <3>1 DEF Has, Unclaimed, InLock, d
  <2>6. Available' = Available /\ Unflushed' = Unflushed
    BY <1>1, <1>2, <1>3, <1>5 DEF Available, Unflushed, Returns, Flushes, Is, InLock
  <2>7. ASSUME NEW s \in Slots
        PROVE  One(s \in held, s \in left, s \in free, s \in queued, s \in Available,
                   s \in Unflushed, s \in Entries, Has(U, s), Has(T, s))'
    <3>1. One(s \in held, s \in left, s \in free, s \in queued, s \in Available,
              s \in Unflushed, s \in Entries, Has(U, s), Has(T, s))
      BY <1>0 DEF SlotsOnce
    <3> QED BY <1>2, <2>4, <2>5, <2>6, <3>1 DEF One
  <2>8. ASSUME NEW s \in Slots
        PROVE  (s \in live <=> s \in held \cup left \cup Entries \/ Unclaimed(U, s) \/ Unclaimed(T, s))'
    <3>1. s \in live <=> s \in held \cup left \cup Entries \/ Unclaimed(U, s) \/ Unclaimed(T, s)
      BY <1>0 DEF SlotsOnce
    <3> QED BY <1>2, <2>4, <2>5, <3>1
  <2>9. /\ \A i, j \in 0 .. count' - 1 : deferred'[i] = deferred'[j] => i = j
        /\ \A i \in 0 .. count' - 1 : deferred'[i] \in Slots
    BY <1>0, <2>1, <2>2 DEF SlotsOnce
  <2>10. /\ U'.cached => avail' = {} \/ U'.at \in Draining \cup {"leave"}
         /\ T'.cached => avail' = {} \/ T'.at \in Draining \cup {"leave"}
         /\ T'.at = "read" => deferred'[T'.n - 1] \in Slots
    BY <1>0, <1>2, <1>3, <1>5, <2>1 DEF Is, SlotsOnce, Draining, d
  <2> QED BY <2>7, <2>8, <2>9, <2>10, Zenon DEF SlotsOnce
<1> QED BY <1>5, <1>6, <1>7, <1>8, <1>9 DEF NestInv

\* The call that makes the cache is the only one, and none was counted.
LEMMA CacheMade ==
  ASSUME NestInv, MakeCache, Section("list"), cache' = "made"
  PROVE  NestInv'
<1> DEFINE f == [Top EXCEPT !.at = "take", !.job = "list"]
<1>0. NestingTypeOK /\ ~trapped /\ StackShape /\ Counts /\ LocksHeld /\ SlotsOnce
  BY DEF NestInv
<1>1. /\ stack # <<>> /\ T = Top /\ T.at = "map" /\ Top.kind # "handler"
      /\ FrameOK(T) /\ T \in FrameType /\ U \in FrameType
  BY RunningTop DEF MakeCache
<1>2. cache = "none" /\ avail = {} /\ rel = {} /\ T.kind # "drop"
  BY <1>0, <1>1 DEF StackShape
<1>3. Len(stack) = 1 /\ U = Rest /\ ~Handled
  <2> DEFINE n == Len(stack)
  <2>1. n \in Nat /\ n # 0 /\ ~(n >= 2) /\ (Handled => n >= 2) /\ (~Handled => U = Rest)
    BY <1>0, <1>1, <1>2, TwoFrames DEF StackShape
  <2> HIDE DEF n
  <2>2. n = 1 /\ ~Handled
    BY <2>1
  <2> QED BY <2>1, <2>2 DEF n
<1>4. ~T.self /\ ~T.cached /\ ~T.draining /\ ~Busy(T) /\ ~Busy(U) /\ ~Locks(T) /\ ~Locks(U)
  BY <1>0, <1>1, <1>2, <1>3, RestOK DEF StackShape, Busy, Locks, FrameOK, Before
<1>5. depth = 0 /\ locks = 0 /\ count = 0
  BY <1>0, <1>2, <1>4 DEF Counts, StackShape
<1>6. /\ Becomes(f) /\ cache' = "made" /\ "take" \in Places /\ "list" \in Jobs
      /\ UNCHANGED <<avail, rel, depth, locks, count, deferred, free, queued, live>>
      /\ UNCHANGED <<locked, sweeping, masked, signals, held, left, trapped, torn>>
  BY <1>2, <1>5
     DEF MakeCache, Section, Places, Jobs, cacheVars, nestVars, deferVars, heapVars, lockVars, progVars
<1>7. Is(f, T, "take", T.self, T.got, T.n, "list", T.cached, T.draining, T.swept, T.back)
  BY <1>1, <1>6, BecomingJob
<1> HIDE DEF f
<1>8. FrameOK(f) /\ f.kind = Top.kind
  BY <1>1, <1>4, <1>7 DEF FrameOK, Is, InLock, Draining, Before
<1>9. /\ stack' \in Seq(FrameType) /\ Len(stack') = 1 /\ stack' # <<>> /\ ~Handled'
      /\ \A i \in 1 .. Len(stack') : FrameOK(stack'[i])
      /\ stack'[1] = f /\ U' = U /\ T' = f
  BY <1>0, <1>1, <1>3, <1>6, <1>8, TopSteps
<1>10. StackShape'
  <2>1. /\ \A i \in 1 .. Len(stack') - 1 : stack'[i].at = "deferred"
        /\ \A i \in 1 .. Len(stack') : stack'[i].kind # "handler"
        /\ ~(Len(stack') >= 2)
    BY <1>1, <1>8, <1>9
  <2>2. T'.kind # "drop" /\ T'.at = "take" /\ count' = 0
    BY <1>2, <1>5, <1>6, <1>7, <1>9 DEF Is
  <2> QED BY <1>6, <1>9, <2>1, <2>2, Zenon DEF StackShape
<1>11. NestingTypeOK' /\ ~trapped'
  BY <1>0, <1>6, <1>9 DEF NestingTypeOK, FrameOK
<1>12. Counts'
  <2>1. ~Busy(f) /\ ~Locks(f) /\ f.at = "take"
    BY <1>4, <1>7 DEF Is, Busy, Locks
  <2> QED BY <1>4, <1>5, <1>6, <1>9, <2>1 DEF Counts
<1>13. LocksHeld'
  BY <1>0, <1>1, <1>6, <1>7, <1>9, StepLocks DEF Is, Holds, Sweeping, Masked
<1>14. SlotsOnce'
  <2>1. \A s \in Slots : (Has(f, s) <=> Has(T, s)) /\ (Unclaimed(f, s) <=> Unclaimed(T, s))
    BY <1>1, <1>7 DEF Is, Has, Unclaimed, InLock
  <2>2. /\ (Returns(f) <=> Returns(T)) /\ (Returns(T) => f.got = T.got)
        /\ (Flushes(f) <=> Flushes(T))
        /\ f.cached => avail = {} \/ f.at \in Draining \cup {"leave"}
        /\ f.at # "read"
    BY <1>1, <1>4, <1>7 DEF Is, Returns, Flushes, InLock
  <2> QED BY <1>0, <1>6, <1>9, <2>1, <2>2, StepSlots
<1> QED BY <1>10, <1>11, <1>12, <1>13, <1>14 DEF NestInv

-----------------------------------------------------------------------------
(* Steps that end a call.                                                  *)
(***************************************************************************)
\* What is below a call that returns has nothing in hand.
Inert(t) ==
    /\ ~Busy(t) /\ ~Locks(t) /\ Holds(t) = {} /\ t.at \notin Sweeping \cup Masked
    /\ \A s : ~Has(t, s) /\ ~Unclaimed(t, s)
    /\ ~Returns(t) /\ ~Flushes(t)
    /\ t.cached => t.at \in Draining

\* The frame that a handler interrupts is at no step that waits for deferred.
LEMMA InterruptedAt ==
  ASSUME NestInv
  PROVE  /\ U.at \notin Masked \cup {"decrement", "read", "map"}
         /\ Busy(U) \/ Locks(U) => Handled
         /\ Locks(U) => Busy(U)
         /\ Handled => cache = "made" /\ signals # 0
<1>0. StackShape /\ Counts
  BY DEF NestInv
<1>1. ~Handled => U = Rest
  BY <1>0, TwoFrames
<1>2. U.at \notin Masked \cup {"decrement", "read", "map"}
  BY <1>0, <1>1, RestOK DEF StackShape, Masked
<1>3. Busy(U) \/ Locks(U) => Handled
  BY <1>1, RestOK DEF Busy, Locks
<1>4. Locks(U) => Busy(U)
  BY <1>0, <1>3 DEF StackShape, Busy, Locks, Draining
<1>5. Handled => cache = "made" /\ signals # 0
  <2>1. Handled => Len(stack) >= 2
    BY <1>0, TwoFrames
  <2> QED BY <1>0, <2>1 DEF StackShape, Counts
<1> QED BY <1>2, <1>3, <1>4, <1>5

LEMMA ReturnShape ==
  ASSUME NestInv, Return, stack # <<>>, Top.kind # "handler", UNCHANGED <<cache, avail, rel>>,
         count' # 0 => Busy(U)
  PROVE  /\ StackShape' /\ U' = U /\ (Handled' <=> Handled) /\ Inert(T)' /\ FrameOK(T')
         /\ T'.at \in {"handler", "deferred"}
         /\ Busy(U) => T'.at = "handler"
         /\ \A i \in 1 .. Len(stack') : stack'[i] \in FrameType
<1>0. StackShape
  BY DEF NestInv
<1>1. /\ stack' \in Seq(FrameType) /\ Len(stack') = Len(stack) - 1
      /\ \A i \in 1 .. Len(stack') : FrameOK(stack'[i]) /\ stack'[i] = stack[i]
      /\ Handled' <=> Handled
      /\ Handled => At' = At /\ At < Len(stack)
      /\ U' = U /\ FrameOK(T')
      /\ T'.at \in {"handler", "deferred"}
      /\ Handled /\ Busy(U) => T'.at = "handler"
      /\ T'.at = "deferred" => Len(stack) >= 2 /\ T'.self
  BY <1>0, TopReturns
<1> DEFINE n == Len(stack)
           k == At
<1>2. n \in Nat \ {0}
  BY <1>0, StackTop
<1>3. n >= 2 => cache = "made"
  BY <1>0 DEF StackShape
<1>4. /\ \A i, j \in 1 .. n : stack[i].kind = "handler" /\ stack[j].kind = "handler" => i = j
      /\ Handled => /\ k >= 2 /\ (Busy(U) => n <= k + 1)
                    /\ U.self \/ U.at = "enter"
                    /\ U.at \notin Masked \cup {"decrement", "read", "map", "handler"}
      /\ \A i \in 1 .. n - 1 : stack[i].at = "deferred" \/ (Handled /\ i \in {k - 1, k})
      /\ cache = "none" => avail = {} /\ rel = {}
  BY <1>0 DEF StackShape
<1>5. Handled => k \in 2 .. n /\ U = stack[k - 1] /\ At' = k /\ k < n
  BY <1>0, <1>1, HandlerFound
<1>6. Len(stack') = n - 1
  BY <1>1
<1> HIDE DEF n, k
<1>7. /\ \A i \in 1 .. n - 1 : i \in 1 .. n
      /\ \A i \in 1 .. (n - 1) - 1 : i \in 1 .. n - 1
      /\ n - 1 >= 2 => n >= 2
  BY <1>2
<1>8. \A i, j \in 1 .. Len(stack') :
        stack'[i].kind = "handler" /\ stack'[j].kind = "handler" => i = j
  BY <1>1, <1>4, <1>6, <1>7
<1>9. Handled' => /\ At' >= 2 /\ (Busy(U') => Len(stack') <= At' + 1)
                  /\ U'.self \/ U'.at = "enter"
                  /\ U'.at \notin Masked \cup {"decrement", "read", "map", "handler"}
  <2> SUFFICES ASSUME Handled
               PROVE  /\ k >= 2 /\ (Busy(U) => n - 1 <= k + 1)
                      /\ U.self \/ U.at = "enter"
                      /\ U.at \notin Masked \cup {"decrement", "read", "map", "handler"}
    BY <1>1, <1>5, <1>6
  <2>1. n <= k + 1 => n - 1 <= k + 1
    BY <1>2, <1>5
  <2> QED BY <1>4, <2>1
<1>10. \A i \in 1 .. Len(stack') - 1 :
         stack'[i].at = "deferred" \/ (Handled' /\ i \in {At' - 1, At'})
  BY <1>1, <1>4, <1>5, <1>6, <1>7
<1>11. count' # 0 => cache' = "made" /\ \E i \in 1 .. Len(stack') : stack'[i].self
  <2> SUFFICES ASSUME Busy(U) PROVE cache = "made" /\ \E i \in 1 .. n - 1 : stack[i].self
    BY <1>1, <1>6
  <2>1. Handled /\ cache = "made" /\ U.self
    BY InterruptedAt DEF Busy
  <2>2. k - 1 \in 1 .. n - 1
    BY <1>2, <1>5, <2>1
  <2> QED BY <1>5, <2>1, <2>2
<1>12. Len(stack') >= 2 => /\ cache' = "made"
                           /\ T'.self \/ T'.at \in {"enter", "defer", "handler"}
  BY <1>1, <1>3, <1>6, <1>7
<1>13. /\ cache' = "none" => avail' = {} /\ rel' = {}
       /\ T'.self \/ T'.cached => cache' = "made"
       /\ T'.at = "map" => cache' = "none"
       /\ T'.kind = "drop" => cache' = "gone"
  <2>1. cache' = "none" => avail' = {} /\ rel' = {}
    BY <1>4
  <2>2. T'.at = "handler" => ~T'.self /\ ~T'.cached /\ T'.kind = "handler"
    BY <1>1 DEF FrameOK, Before
  <2>3. T'.at = "deferred" => cache = "made" /\ T'.kind \in {"alloc", "free"}
    BY <1>1, <1>3 DEF FrameOK, n
  <2> QED BY <1>1, <2>1, <2>2, <2>3
<1>14. StackShape'
  <2>1. stack' \in Seq(FrameType) /\ \A i \in 1 .. Len(stack') : FrameOK(stack'[i])
    BY <1>1
  <2> QED BY <1>8, <1>9, <1>10, <1>11, <1>12, <1>13, <2>1, Zenon DEF StackShape
<1>15. Inert(T)'
  BY <1>1 DEF Inert, Busy, Locks, Holds, Sweeping, Masked, Has, Unclaimed, Returns, Flushes, InLock,
     FrameOK, Draining, Before
<1>16. \A i \in 1 .. Len(stack') : stack'[i] \in FrameType
  BY <1>1 DEF FrameOK
<1>17. Busy(U) => T'.at = "handler"
  BY <1>1, InterruptedAt
<1> QED BY <1>1, <1>14, <1>15, <1>16, <1>17

\* A call ends: what it had, if it had anything, waits or did not fit.
LEMMA Returned ==
  ASSUME NestInv, Return, stack # <<>>, T = Top, T.at \in {"enter", "defer", "leave", "deferred"},
         UNCHANGED <<cache, avail, rel, locks, free, queued, live, locked, sweeping, masked>>,
         UNCHANGED <<signals, held, trapped, torn>>,
         left' \in SUBSET Slots, count' \in 0 .. DeferredLimit,
         deferred' \in [0 .. DeferredLimit - 1 -> Slots \cup {None}],
         depth' = IF Busy(U) THEN 1 ELSE 0,
         count' # 0 => Busy(U),
         \A s \in Slots : /\ s \in left' \/ s \in Entries' <=> s \in left \/ s \in Entries \/ Has(T, s)
                          /\ ~(s \in left' /\ s \in Entries'),
         \A i, j \in 0 .. count' - 1 : deferred'[i] = deferred'[j] => i = j,
         \A i \in 0 .. count' - 1 : deferred'[i] \in Slots
  PROVE  NestInv'
<1>0. NestingTypeOK /\ ~trapped /\ StackShape /\ Counts /\ LocksHeld /\ SlotsOnce
  BY DEF NestInv
<1>1. FrameOK(T) /\ FrameOK(U) /\ Top.kind # "handler"
  BY <1>0, TwoFrames DEF FrameOK
<1>2. /\ StackShape' /\ U' = U /\ (Handled' <=> Handled) /\ Inert(T)' /\ FrameOK(T')
      /\ T'.at \in {"handler", "deferred"}
      /\ Busy(U) => T'.at = "handler"
      /\ \A i \in 1 .. Len(stack') : stack'[i] \in FrameType
  BY <1>1, ReturnShape
<1>3. NestingTypeOK' /\ ~trapped'
  <2>1. depth' \in Nat
    OBVIOUS
  <2> QED BY <1>0, <1>2, <2>1 DEF NestingTypeOK
<1>4. Counts'
  <2>1. ~Busy(T') /\ ~Locks(T') /\ ~Locks(T) /\ (Busy(U') <=> Busy(U)) /\ (Locks(U') <=> Locks(U))
    BY <1>2 DEF Inert, Locks
  <2>2. locks' = IF cache' = "made" THEN (IF Locks(U') THEN 1 ELSE 0) + (IF Locks(T') THEN 1 ELSE 0) ELSE 0
    BY <1>0, <2>1 DEF Counts
  <2>3. depth' = (IF Busy(U') THEN 1 ELSE 0) + (IF Busy(T') THEN 1 ELSE 0)
    BY <2>1
  <2>4. Busy(U) \/ Locks(U) => T'.at = "handler"
    BY <1>2, InterruptedAt
  <2>5. Busy(U) => Outside(T')
    BY <1>2, <2>4 DEF Outside, Sweeping, Draining, InLock, FrameOK, Before
  <2>6. Handled' \/ count' # 0 => signals' # 0
    BY <1>2, InterruptedAt
  <2>7. T'.at \notin {"defer", "decrement", "read"}
    BY <1>2
  <2> QED BY <1>2, <2>1, <2>2, <2>3, <2>4, <2>5, <2>6, <2>7 DEF Counts
<1>5. LocksHeld'
  <2>1. Holds(T) = {} /\ T.at \notin Sweeping \cup Masked
    BY DEF Holds, Sweeping, Masked
  <2>2. Holds(T') = {} /\ T'.at \notin Sweeping \cup Masked
    BY <1>2 DEF Inert
  <2> QED BY <1>0, <1>2, <2>1, <2>2 DEF LocksHeld
<1>6. SlotsOnce'
  <2>1. Available' = Available /\ Unflushed' = Unflushed
    <3>1. ~Returns(T) /\ ~Flushes(T) /\ ~Returns(T') /\ ~Flushes(T')
      BY <1>2 DEF Returns, Flushes, InLock, Inert
    <3> QED BY <1>2, <3>1 DEF Available, Unflushed
  <2>2. \A s \in Slots : /\ ~Has(T, s)' /\ ~Unclaimed(T, s)'
                         /\ (Has(U, s)' <=> Has(U, s)) /\ (Unclaimed(U, s)' <=> Unclaimed(U, s))
                         /\ (Has(T, s) <=> Unclaimed(T, s))
    <3>1. U.at # "read"
      BY InterruptedAt
    <3>2. \A s : (Has(U, s)' <=> Has(U, s)) /\ (Unclaimed(U, s)' <=> Unclaimed(U, s))
      BY <1>2, <3>1 DEF Has, Unclaimed
    <3>3. \A s : Has(T, s) <=> Unclaimed(T, s)
      BY DEF Has, Unclaimed, InLock
    <3> QED BY <1>2, <3>2, <3>3 DEF Inert
  <2>3. ASSUME NEW s \in Slots
        PROVE  One(s \in held, s \in left, s \in free, s \in queued, s \in Available,
                   s \in Unflushed, s \in Entries, Has(U, s), Has(T, s))'
    <3>1. One(s \in held, s \in left, s \in free, s \in queued, s \in Available,
              s \in Unflushed, s \in Entries, Has(U, s), Has(T, s))
      BY <1>0 DEF SlotsOnce
    <3>2. /\ s \in left' \/ s \in Entries' <=> s \in left \/ s \in Entries \/ Has(T, s)
          /\ ~(s \in left' /\ s \in Entries')
      OBVIOUS
    <3> QED BY <2>1, <2>2, <3>1, <3>2 DEF One
  <2>4. ASSUME NEW s \in Slots
        PROVE  (s \in live <=> s \in held \cup left \cup Entries \/ Unclaimed(U, s) \/ Unclaimed(T, s))'
    <3>1. s \in live <=> s \in held \cup left \cup Entries \/ Unclaimed(U, s) \/ Unclaimed(T, s)
      BY <1>0 DEF SlotsOnce
    <3> QED BY <2>2, <3>1
  <2>5. /\ U'.cached => avail' = {} \/ U'.at \in Draining \cup {"leave"}
        /\ T'.cached => avail' = {} \/ T'.at \in Draining \cup {"leave"}
        /\ T'.at # "read"
    BY <1>0, <1>2 DEF SlotsOnce, Inert
  <2> QED BY <2>3, <2>4, <2>5, Zenon DEF SlotsOnce
<1> QED BY <1>2, <1>3, <1>4, <1>5, <1>6 DEF NestInv

\* A call is refused only where a handler interrupted one that holds a lock.
LEMMA RefusedAt ==
  ASSUME NestInv, Refused, T.at = "enter"
  PROVE  Locks(U) /\ Busy(U) /\ Handled /\ depth = 1
<1>0. Counts /\ FrameOK(T)
  BY TwoFrames DEF NestInv
<1>1. ~Busy(T) /\ ~Locks(T)
  BY <1>0 DEF Busy, Locks, FrameOK
<1>2. Locks(U)
  BY <1>0, <1>1 DEF Refused, OwnCache, Counts
<1>3. Busy(U) /\ Handled
  BY <1>2, InterruptedAt
<1> QED BY <1>0, <1>1, <1>2, <1>3 DEF Counts

LEMMA RefuseAllocStep ==
  ASSUME NestInv, RefuseAlloc
  PROVE  NestInv'
<1>0. NestingTypeOK /\ SlotsOnce
  BY DEF NestInv
<1>1. stack # <<>> /\ T = Top /\ T.at = "enter" /\ T.kind = "alloc" /\ Refused /\ Return
  BY RunningTop DEF RefuseAlloc
<1>2. /\ UNCHANGED <<cache, avail, rel, depth, locks, count, deferred, free, queued, live>>
      /\ UNCHANGED <<locked, sweeping, masked, signals, held, left, trapped, torn>>
  BY DEF RefuseAlloc, Moves, cacheVars, nestVars, deferVars, heapVars, lockVars, progVars
<1>3. Locks(U) /\ Busy(U) /\ depth = 1
  BY <1>1, RefusedAt
<1>4. \A s \in Slots : ~Has(T, s) /\ ~(s \in left /\ s \in Entries)
  BY <1>0, <1>1 DEF Has, InLock, SlotsOnce, One
<1>5. Entries' = Entries
  BY <1>2 DEF Entries
<1>6. /\ left' \in SUBSET Slots /\ count' \in 0 .. DeferredLimit
      /\ deferred' \in [0 .. DeferredLimit - 1 -> Slots \cup {None}]
      /\ \A i, j \in 0 .. count' - 1 : deferred'[i] = deferred'[j] => i = j
      /\ \A i \in 0 .. count' - 1 : deferred'[i] \in Slots
  BY <1>0, <1>2 DEF NestingTypeOK, SlotsOnce
<1> QED BY <1>1, <1>2, <1>3, <1>4, <1>5, <1>6, Returned

LEMMA LeftStep ==
  ASSUME NestInv, DeferFree, count >= DeferredLimit
  PROVE  NestInv'
<1>0. NestingTypeOK /\ SlotsOnce
  BY DEF NestInv
<1>1. /\ stack # <<>> /\ T = Top /\ T.at = "enter" /\ T.kind = "free" /\ Refused
      /\ T.arg \in Slots /\ FrameOK(T)
  BY RunningTop DEF DeferFree, FrameOK
<1>2. /\ UNCHANGED <<cache, avail, rel, depth, locks, count, deferred, free, queued, live>>
      /\ UNCHANGED <<locked, sweeping, masked, signals, held, trapped, torn>>
      /\ Return /\ left' = left \cup {T.arg}
  <2>1. count \in Nat /\ DeferredLimit \in Nat
    BY <1>0, NestingAssumption DEF NestingTypeOK
  <2> QED BY <1>1, <2>1 DEF DeferFree, cacheVars, nestVars, deferVars, heapVars, lockVars
<1>3. Locks(U) /\ Busy(U) /\ depth = 1
  BY <1>1, RefusedAt
<1>4. \A s \in Slots : /\ Has(T, s) <=> s = T.arg
                       /\ ~(s \in left /\ s \in Entries) /\ ~(Has(T, s) /\ s \in Entries)
  <2>1. \A s : Has(T, s) <=> s = T.arg
    BY <1>1 DEF Has, InLock
  <2> QED BY <1>0, <2>1 DEF SlotsOnce, One
<1>5. Entries' = Entries
  BY <1>2 DEF Entries
<1>6. /\ left' \in SUBSET Slots /\ count' \in 0 .. DeferredLimit
      /\ deferred' \in [0 .. DeferredLimit - 1 -> Slots \cup {None}]
      /\ \A i, j \in 0 .. count' - 1 : deferred'[i] = deferred'[j] => i = j
      /\ \A i \in 0 .. count' - 1 : deferred'[i] \in Slots
  BY <1>0, <1>1, <1>2 DEF NestingTypeOK, SlotsOnce
<1>7. \A s \in Slots : /\ s \in left' \/ s \in Entries' <=> s \in left \/ s \in Entries \/ Has(T, s)
                       /\ ~(s \in left' /\ s \in Entries')
  BY <1>2, <1>4, <1>5
<1> QED BY <1>1, <1>2, <1>3, <1>6, <1>7, Returned

LEMMA DeferStep ==
  ASSUME NestInv, Defer
  PROVE  NestInv'
<1>0. NestingTypeOK /\ SlotsOnce /\ Counts
  BY DEF NestInv
<1>1. /\ stack # <<>> /\ T = Top /\ T.at = "defer" /\ T.kind = "free"
      /\ T.arg \in Slots /\ FrameOK(T) /\ ~T.self /\ T.n < DeferredLimit
  BY RunningTop DEF Defer, FrameOK
<1>2. Locks(U) /\ T.n = count /\ count \in Nat /\ DeferredLimit \in Nat /\ count < DeferredLimit
  BY <1>0, <1>1, NestingAssumption DEF Counts, NestingTypeOK
<1>3. /\ UNCHANGED <<cache, avail, rel, depth, locks, free, queued, live>>
      /\ UNCHANGED <<locked, sweeping, masked, signals, held, left, trapped, torn>>
      /\ Return /\ deferred' = [deferred EXCEPT ![count] = T.arg] /\ count' = count + 1
  BY <1>1, <1>2 DEF Defer, cacheVars, heapVars, lockVars, progVars
<1>4. depth = (IF Busy(U) THEN 1 ELSE 0) /\ Busy(U)
  <2>1. ~Busy(T)
    BY <1>1 DEF Busy
  <2> QED BY <1>0, <1>2, <2>1, InterruptedAt DEF Counts
<1>5. \A s \in Slots : /\ Has(T, s) <=> s = T.arg
                       /\ ~(s \in left /\ s \in Entries) /\ ~(Has(T, s) /\ s \in Entries)
                       /\ ~(Has(T, s) /\ s \in left)
  <2>1. \A s : Has(T, s) <=> s = T.arg
    BY <1>1 DEF Has, InLock
  <2> QED BY <1>0, <2>1 DEF SlotsOnce, One
<1>6. deferred \in [0 .. DeferredLimit - 1 -> Slots \cup {None}]
  BY <1>0 DEF NestingTypeOK
<1>7. /\ deferred'[count] = T.arg /\ \A i \in 0 .. count - 1 : deferred'[i] = deferred[i]
      /\ deferred' \in [0 .. DeferredLimit - 1 -> Slots \cup {None}]
  <2>1. count \in 0 .. DeferredLimit - 1
    BY <1>2
  <2>2. \A i \in 0 .. count - 1 : i # count /\ i \in 0 .. DeferredLimit - 1
    BY <1>2
  <2> QED BY <1>1, <1>3, <1>6, <2>1, <2>2
<1>8. /\ \A i \in 0 .. count' - 1 : i = count \/ i \in 0 .. count - 1
      /\ \A i \in 0 .. count - 1 : i \in 0 .. count' - 1 /\ i # count
      /\ count \in 0 .. count' - 1 /\ count' \in 0 .. DeferredLimit
  BY <1>2, <1>3
<1>9. \A s : s \in Entries' <=> s \in Entries \/ s = T.arg
  <2>1. Entries' = {deferred'[i] : i \in 0 .. count' - 1}
    BY DEF Entries
  <2> QED BY <1>7, <1>8, <2>1 DEF Entries
<1>10. /\ \A i, j \in 0 .. count' - 1 : deferred'[i] = deferred'[j] => i = j
       /\ \A i \in 0 .. count' - 1 : deferred'[i] \in Slots
  <2>1. \A i \in 0 .. count - 1 : deferred[i] # T.arg
    BY <1>1, <1>5 DEF Entries
  <2>2. /\ \A i, j \in 0 .. count - 1 : deferred[i] = deferred[j] => i = j
        /\ \A i \in 0 .. count - 1 : deferred[i] \in Slots
    BY <1>0 DEF SlotsOnce
  <2> QED BY <1>1, <1>7, <1>8, <2>1, <2>2
<1>11. \A s \in Slots : /\ s \in left' \/ s \in Entries' <=> s \in left \/ s \in Entries \/ Has(T, s)
                        /\ ~(s \in left' /\ s \in Entries')
  BY <1>3, <1>5, <1>9
<1>12. left' \in SUBSET Slots
  BY <1>0, <1>3 DEF NestingTypeOK
<1> QED BY <1>1, <1>2, <1>3, <1>4, <1>7, <1>8, <1>10, <1>11, <1>12, Returned

\* A call that is not the last, or is not counted, leaves.
LEMMA LeaveStep ==
  ASSUME NestInv, Leave, ~(Top.self /\ depth' = 0)
  PROVE  NestInv'
<1>0. NestingTypeOK /\ SlotsOnce /\ Counts
  BY DEF NestInv
<1>1. stack # <<>> /\ T = Top /\ T.at = "leave" /\ FrameOK(T)
  BY RunningTop DEF Leave
<1>2. /\ UNCHANGED <<cache, avail, rel, locks, count, deferred, free, queued, live>>
      /\ UNCHANGED <<locked, sweeping, masked, signals, held, left, trapped, torn>>
      /\ Return /\ depth' = IF T.self THEN depth - 1 ELSE depth
  BY <1>1 DEF Leave, cacheVars, deferVars, heapVars, lockVars, progVars
<1>3. /\ Busy(T) <=> T.self
      /\ ~T.self => ~Busy(U)
      /\ ~Locks(U)
  BY <1>1, Below DEF Busy, Draining
<1>4. depth = (IF Busy(U) THEN 1 ELSE 0) + (IF T.self THEN 1 ELSE 0)
  BY <1>0, <1>3 DEF Counts
<1>5. depth' = IF Busy(U) THEN 1 ELSE 0
  BY <1>2, <1>3, <1>4
<1>6. count # 0 => Busy(U)
  <2>1. T.self => Busy(U)
    BY <1>1, <1>2, <1>5
  <2>2. ~T.self => count = 0
    <3> SUFFICES ASSUME ~T.self, count # 0 PROVE FALSE
      OBVIOUS
    <3>1. StackShape /\ ~(Len(stack) >= 2) /\ Len(stack) \in Nat \ {0} /\ T = stack[Len(stack)]
      BY <1>1, Below, StackTop DEF NestInv
    <3>2. PICK i \in 1 .. Len(stack) : stack[i].self
      BY <3>1 DEF StackShape
    <3>3. i = Len(stack)
      BY <3>1, <3>2
    <3> QED BY <3>1, <3>2, <3>3
  <2> QED BY <2>1, <2>2
<1>7. \A s \in Slots : ~Has(T, s) /\ ~(s \in left /\ s \in Entries)
  BY <1>0, <1>1 DEF Has, InLock, SlotsOnce, One
<1>8. Entries' = Entries
  BY <1>2 DEF Entries
<1>9. /\ left' \in SUBSET Slots /\ count' \in 0 .. DeferredLimit /\ (count' # 0 => Busy(U))
      /\ deferred' \in [0 .. DeferredLimit - 1 -> Slots \cup {None}]
      /\ \A i, j \in 0 .. count' - 1 : deferred'[i] = deferred'[j] => i = j
      /\ \A i \in 0 .. count' - 1 : deferred'[i] \in Slots
  BY <1>0, <1>2, <1>6 DEF NestingTypeOK, SlotsOnce
<1> QED BY <1>1, <1>2, <1>5, <1>7, <1>8, <1>9, Returned

LEMMA NoDeferredStep ==
  ASSUME NestInv, TestDeferred, count = 0
  PROVE  NestInv'
<1>0. NestingTypeOK /\ SlotsOnce /\ Counts
  BY DEF NestInv
<1>1. stack # <<>> /\ T = Top /\ T.at = "deferred" /\ FrameOK(T)
  BY RunningTop DEF TestDeferred
<1>2. /\ UNCHANGED <<cache, avail, rel, depth, locks, count, deferred, free, queued, live>>
      /\ UNCHANGED <<locked, sweeping, masked, signals, held, left, trapped, torn>>
      /\ Return
  BY DEF TestDeferred, Moves, cacheVars, nestVars, deferVars, heapVars, lockVars, progVars
<1>3. depth' = IF Busy(U) THEN 1 ELSE 0
  <2>1. ~Busy(T)
    BY <1>1 DEF Busy, Draining
  <2> QED BY <1>0, <1>2, <2>1 DEF Counts
<1>4. \A s \in Slots : ~Has(T, s) /\ ~(s \in left /\ s \in Entries)
  BY <1>0, <1>1 DEF Has, InLock, SlotsOnce, One
<1>5. Entries' = Entries
  BY <1>2 DEF Entries
<1>6. /\ left' \in SUBSET Slots /\ count' \in 0 .. DeferredLimit /\ count' = 0
      /\ deferred' \in [0 .. DeferredLimit - 1 -> Slots \cup {None}]
      /\ \A i, j \in 0 .. count' - 1 : deferred'[i] = deferred'[j] => i = j
      /\ \A i \in 0 .. count' - 1 : deferred'[i] \in Slots
  BY <1>0, <1>2 DEF NestingTypeOK, SlotsOnce
<1> QED BY <1>1, <1>2, <1>3, <1>4, <1>5, <1>6, Returned

-----------------------------------------------------------------------------
(* Steps that begin or end a frame.                                        *)
(***************************************************************************)
LEMMA NewFrame ==
  ASSUME NEW k \in Kinds, NEW p \in Places, NEW a \in Slots \cup {None}
  PROVE  LET f == Frame(k, p, a)
         IN  /\ f \in FrameType /\ f.kind = k /\ f.at = p /\ f.arg = a /\ ~f.self /\ ~f.cached
             /\ ~f.draining /\ f.got = {} /\ f.n = 0 /\ f.back = "leave" /\ f.job = "none"
  BY DEF Frame, FrameType, Jobs

LEMMA NewFrameOK ==
  ASSUME NEW f, f \in FrameType, ~f.self, ~f.cached, ~f.draining, f.back = "leave",
         \/ f.at = "enter" /\ f.kind = "alloc"
         \/ f.at = "enter" /\ f.kind = "free" /\ f.arg \in Slots
         \/ f.at = "drain" /\ f.kind = "drop"
  PROVE  FrameOK(f)
  BY DEF FrameOK, InLock, Draining, Before

\* A call begins above a frame that has nothing in hand.
LEMMA Called ==
  ASSUME NestInv, Inert(T), NEW f, FrameOK(f), f.at \in {"enter", "drain"}, ~f.self, ~f.cached,
         ~f.draining, StackShape', U' = U, T' = f, Handled' <=> Handled,
         f.at = "drain" => ~Busy(U),
         cache' = cache \/ (cache' = "gone" /\ locks = 0),
         UNCHANGED <<avail, rel, depth, locks, count, deferred, free, queued, live>>,
         UNCHANGED <<locked, sweeping, masked, left, trapped, torn>>,
         signals' \in 0 .. MaxSignals, signals' = signals \/ (count = 0 /\ ~Handled),
         \A s \in Slots : (s \in held' <=> s \in held /\ ~Has(f, s)) /\ (Has(f, s) => s \in held),
         held' \in SUBSET Slots
  PROVE  NestInv'
<1>0. NestingTypeOK /\ ~trapped /\ StackShape /\ Counts /\ LocksHeld /\ SlotsOnce
  BY DEF NestInv
<1>1. NestingTypeOK' /\ ~trapped'
  <2>1. \A i \in 1 .. Len(stack') : stack'[i] \in FrameType
    BY DEF StackShape, FrameOK
  <2>2. cache' \in {"none", "made", "gone"}
    BY <1>0 DEF NestingTypeOK
  <2> QED BY <1>0, <2>1, <2>2 DEF NestingTypeOK
<1>2. Counts'
  <2>1. ~Busy(T) /\ ~Locks(T) /\ ~Busy(f) /\ ~Locks(f)
    BY DEF Inert, Busy, Locks
  <2>2. Busy(U) => Outside(f)
    BY DEF Outside, InLock, Draining, Sweeping
  <2>3. Locks(U) => f.at = "enter"
    BY InterruptedAt
  <2>4. /\ depth' = (IF Busy(U') THEN 1 ELSE 0) + (IF Busy(T') THEN 1 ELSE 0)
        /\ locks' = IF cache' = "made" THEN (IF Locks(U') THEN 1 ELSE 0) + (IF Locks(T') THEN 1 ELSE 0)
                    ELSE 0
    BY <1>0, <2>1 DEF Counts
  <2>5. Handled' \/ count' # 0 => signals' # 0
    BY <1>0 DEF Counts
  <2> QED BY <1>0, <2>1, <2>2, <2>3, <2>4, <2>5 DEF Counts
<1>3. LocksHeld'
  <2>1. Holds(T) = {} /\ T.at \notin Sweeping \cup Masked
    BY DEF Inert
  <2>2. Holds(f) = {} /\ f.at \notin Sweeping \cup Masked
    BY DEF Holds, Sweeping, Masked
  <2> QED BY <1>0, <2>1, <2>2 DEF LocksHeld
<1>4. SlotsOnce'
  <2>1. /\ \A s \in Slots : ~Has(T, s) /\ ~Unclaimed(T, s) /\ (Unclaimed(f, s) <=> Has(f, s))
        /\ ~Returns(f) /\ ~Flushes(f) /\ ~Returns(T) /\ ~Flushes(T) /\ f.at # "read"
    BY DEF Inert, Has, Unclaimed, Returns, Flushes, InLock, FrameOK
  <2>2. Available' = Available /\ Unflushed' = Unflushed
    BY <2>1 DEF Available, Unflushed
  <2>3. ASSUME NEW s \in Slots
        PROVE  One(s \in held', s \in left', s \in free', s \in queued', s \in Available',
                   s \in Unflushed', s \in Entries, Has(U, s), Has(f, s))
    <3>1. One(s \in held, s \in left, s \in free, s \in queued, s \in Available,
              s \in Unflushed, s \in Entries, Has(U, s), Has(T, s))
      BY <1>0 DEF SlotsOnce
    <3> QED BY <2>1, <2>2, <3>1 DEF One
  <2>4. ASSUME NEW s \in Slots
        PROVE  s \in live' <=> s \in held' \cup left' \cup Entries \/ Unclaimed(U, s) \/ Unclaimed(f, s)
    <3>1. s \in live <=> s \in held \cup left \cup Entries \/ Unclaimed(U, s) \/ Unclaimed(T, s)
      BY <1>0 DEF SlotsOnce
    <3> QED BY <2>1, <3>1
  <2>5. U.cached => avail' = {} \/ U.at \in Draining \cup {"leave"}
    BY <1>0 DEF SlotsOnce
  <2> QED BY <1>0, <2>1, <2>3, <2>4, <2>5, StepOnce
<1> QED BY <1>1, <1>2, <1>3, <1>4 DEF NestInv

\* The frame of a call and what it takes from the program.
LEMMA CallFrame ==
  ASSUME NestInv, NEW s, CallAlloc(s) \/ CallFree(s)
  PROVE  \E f : /\ FrameOK(f) /\ f.at = "enter" /\ f.kind \in {"alloc", "free"} /\ ~f.self /\ ~f.cached
                /\ ~f.draining /\ stack' = Append(s, f)
                /\ \A x \in Slots : (x \in held' <=> x \in held /\ ~Has(f, x)) /\ (Has(f, x) => x \in held)
                /\ held' \in SUBSET Slots
<1>0. held \in SUBSET Slots
  BY DEF NestInv, NestingTypeOK
<1>1. CASE CallAlloc(s)
  <2> DEFINE f == Frame("alloc", "enter", None)
  <2>1. /\ f \in FrameType /\ f.kind = "alloc" /\ f.at = "enter" /\ ~f.self /\ ~f.cached
        /\ ~f.draining /\ f.back = "leave"
    BY NewFrame DEF Kinds, Places
  <2>2. stack' = Append(s, f) /\ held' = held
    BY <1>1 DEF CallAlloc, Begin
  <2> HIDE DEF f
  <2>3. FrameOK(f)
    BY <2>1, NewFrameOK
  <2>4. \A x : ~Has(f, x)
    BY <2>1 DEF Has, InLock
  <2> QED BY <1>0, <2>1, <2>2, <2>3, <2>4
<1>2. CASE CallFree(s)
  <2>1. PICK p \in held : Begin(Frame("free", "enter", p), s) /\ held' = held \ {p}
    BY <1>2 DEF CallFree
  <2> DEFINE f == Frame("free", "enter", p)
  <2>2. /\ f \in FrameType /\ f.kind = "free" /\ f.at = "enter" /\ ~f.self /\ ~f.cached
        /\ ~f.draining /\ f.back = "leave" /\ f.arg = p
    BY <1>0, NewFrame DEF Kinds, Places
  <2>3. stack' = Append(s, f)
    BY <2>1 DEF Begin
  <2> HIDE DEF f
  <2>4. FrameOK(f)
    BY <1>0, <2>2, NewFrameOK
  <2>5. \A x : Has(f, x) <=> x = p
    BY <2>2 DEF Has, InLock
  <2> QED BY <1>0, <2>1, <2>2, <2>3, <2>4, <2>5
<1> QED BY <1>1, <1>2

LEMMA HandlerInert ==
  ASSUME NEW t, FrameOK(t), t.at = "handler"
  PROVE  Inert(t) /\ ~t.self /\ ~t.cached /\ ~t.draining /\ t.kind = "handler"
  BY DEF Inert, Busy, Locks, Holds, Sweeping, Masked, Has, Unclaimed, Returns, Flushes, InLock, FrameOK,
     Draining, Before

\* The thread is outside the allocator and no handler runs.
LEMMA Outermost ==
  ASSUME NestInv, stack = <<>>
  PROVE  /\ T = Rest /\ U = Rest /\ ~Handled /\ Inert(T) /\ Inert(U)
         /\ depth = 0 /\ locks = 0 /\ count = 0
         /\ locked = {} /\ ~sweeping /\ ~masked
<1>0. StackShape /\ Counts /\ LocksHeld
  BY DEF NestInv
<1>1. T = Rest
  BY DEF T
<1>2. ~Handled /\ Len(stack) = 0 /\ 1 .. Len(stack) = {}
  BY DEF Handled
<1>3. U = Rest
  BY <1>2 DEF U
<1>4. Inert(Rest) /\ ~Rest.self /\ Rest.at = "handler"
  BY RestOK, HandlerInert
<1>5. ~Busy(T) /\ ~Busy(U) /\ ~Locks(T) /\ ~Locks(U) /\ ~T.self /\ T.at = "handler"
  BY <1>1, <1>3, <1>4 DEF Inert
<1>6. depth = 0 /\ locks = 0
  BY <1>0, <1>5 DEF Counts
<1>7. count = 0
  BY <1>0, <1>2 DEF StackShape
<1>8. locked = {} /\ ~sweeping /\ ~masked
  BY <1>0, <1>1, <1>3, <1>4 DEF LocksHeld, Inert
<1> QED BY <1>1, <1>2, <1>3, <1>4, <1>6, <1>7, <1>8

\* A stack of one frame.
LEMMA OneFrame ==
  ASSUME NEW f, FrameOK(f), f.kind # "handler", stack' = <<f>>,
         f.self \/ f.cached => cache' = "made", f.at = "map" => cache' = "none",
         f.kind = "drop" => cache' = "gone",
         cache' = "none" => avail' = {} /\ rel' = {}, count' = 0
  PROVE  StackShape' /\ U' = Rest /\ T' = f /\ ~Handled'
<1>1. f \in FrameType
  BY DEF FrameOK
<1>2. stack' \in Seq(FrameType) /\ Len(stack') = 1 /\ stack'[1] = f /\ stack' # <<>>
  BY <1>1
<1>3. ~Handled' /\ T' = f
  BY <1>2 DEF Handled, T, Top
<1>4. U' = Rest
  BY <1>3 DEF U
<1>5. /\ \A i \in 1 .. Len(stack') : FrameOK(stack'[i]) /\ stack'[i].kind # "handler"
      /\ \A i \in 1 .. Len(stack') - 1 : stack'[i].at = "deferred"
      /\ ~(Len(stack') >= 2)
  BY <1>2
<1>6. StackShape'
  BY <1>2, <1>3, <1>5, Zenon DEF StackShape
<1> QED BY <1>3, <1>4, <1>6

LEMMA CallStep ==
  ASSUME NestInv, Call
  PROVE  NestInv'
<1>0. StackShape /\ MaxSignals \in Nat
  BY NestingAssumption DEF NestInv
<1>1. stack = <<>> /\ signals' = 0 /\ (CallAlloc(stack) \/ CallFree(stack))
  BY DEF Call
<1>2. /\ UNCHANGED <<cache, avail, rel, depth, locks, count, deferred, free, queued, live>>
      /\ UNCHANGED <<locked, sweeping, masked, left, trapped, torn>>
  BY <1>1 DEF Call, CallAlloc, CallFree, Begin, cacheVars, nestVars, deferVars, heapVars, lockVars
<1>3. PICK f : /\ FrameOK(f) /\ f.at = "enter" /\ f.kind \in {"alloc", "free"} /\ ~f.self /\ ~f.cached
               /\ ~f.draining /\ stack' = Append(stack, f)
               /\ \A x \in Slots : (x \in held' <=> x \in held /\ ~Has(f, x)) /\ (Has(f, x) => x \in held)
               /\ held' \in SUBSET Slots
  BY <1>1, CallFrame
<1>4. stack' = <<f>>
  BY <1>1, <1>3
<1>5. StackShape' /\ U' = Rest /\ T' = f /\ ~Handled'
  <2>1. (cache' = "none" => avail' = {} /\ rel' = {}) /\ count' = 0
    BY <1>0, <1>1, <1>2, Outermost DEF StackShape
  <2> QED BY <1>3, <1>4, <2>1, OneFrame
<1>6. U = Rest /\ ~Handled /\ Inert(T) /\ count = 0
  BY <1>1, Outermost
<1>7. signals' \in 0 .. MaxSignals
  BY <1>0, <1>1
<1> QED BY <1>2, <1>3, <1>5, <1>6, <1>7, Called

LEMMA ExitStep ==
  ASSUME NestInv, Exit
  PROVE  NestInv'
<1> DEFINE f == Frame("drop", "drain", None)
<1>0. NestingTypeOK /\ MaxSignals \in Nat
  BY NestingAssumption DEF NestInv
<1>1. /\ stack = <<>> /\ cache' = "gone" /\ signals' = 0 /\ stack' = <<f>>
      /\ UNCHANGED <<avail, rel, depth, locks, count, deferred, free, queued, live>>
      /\ UNCHANGED <<locked, sweeping, masked, left, trapped, torn, held>>
  BY DEF Exit, nestVars, deferVars, heapVars, lockVars
<1>2. /\ f \in FrameType /\ f.kind = "drop" /\ f.at = "drain" /\ ~f.self /\ ~f.cached
      /\ ~f.draining /\ f.back = "leave"
  BY NewFrame DEF Kinds, Places
<1> HIDE DEF f
<1>3. FrameOK(f)
  BY <1>2, NewFrameOK
<1>4. StackShape' /\ U' = Rest /\ T' = f /\ ~Handled'
  BY <1>1, <1>2, <1>3, Outermost, OneFrame
<1>5. U = Rest /\ ~Handled /\ Inert(T) /\ Inert(U) /\ count = 0 /\ locks = 0
  BY <1>1, Outermost
<1>6. \A s \in Slots : ~Has(f, s)
  BY <1>2 DEF Has, InLock
<1>7. signals' \in 0 .. MaxSignals /\ held' \in SUBSET Slots /\ ~Busy(U)
  BY <1>0, <1>1, <1>5 DEF NestingTypeOK, Inert
<1> QED BY <1>1, <1>2, <1>3, <1>4, <1>5, <1>6, <1>7, Called

\* A handler that runs is above the frame it interrupted.
LEMMA HandlerTop ==
  ASSUME NestInv, Running({"handler"})
  PROVE  /\ Handled /\ At = Len(stack) /\ Len(stack) \in Nat /\ Len(stack) >= 2
         /\ DOMAIN stack = 1 .. Len(stack) /\ U = stack[Len(stack) - 1] /\ T = stack[Len(stack)]
         /\ T = Top /\ stack # <<>>
         /\ FrameOK(T) /\ FrameOK(U) /\ T.at = "handler" /\ T.kind = "handler" /\ Inert(T)
         /\ U.self \/ U.at = "enter"
         /\ U.at \notin Masked \cup {"decrement", "read", "map", "handler"}
         /\ cache = "made" /\ signals # 0
<1>0. StackShape
  BY DEF NestInv
<1>1. /\ stack # <<>> /\ T = Top /\ T = stack[Len(stack)] /\ T.at = "handler" /\ FrameOK(T) /\ FrameOK(U)
  BY RunningTop
<1>2. T.kind = "handler" /\ Inert(T)
  BY <1>1, HandlerInert
<1>3. Len(stack) \in Nat \ {0} /\ DOMAIN stack = 1 .. Len(stack)
  BY <1>0, <1>1, StackTop
<1>4. Handled
  <2>1. Len(stack) \in 1 .. Len(stack)
    BY <1>3
  <2> QED BY <1>1, <1>2, <2>1 DEF Handled
<1>5. At = Len(stack) /\ Len(stack) >= 2 /\ U = stack[Len(stack) - 1]
  <2> DEFINE n == Len(stack)
  <2>1. /\ At \in 2 .. n /\ U = stack[At - 1]
        /\ \A i \in 1 .. n : stack[i].kind = "handler" => i = At
    BY <1>0, <1>4, HandlerFound
  <2>2. n \in Nat \ {0} /\ stack[n].kind = "handler"
    BY <1>1, <1>2, <1>3
  <2> HIDE DEF n
  <2>3. n = At
    BY <2>1, <2>2
  <2> QED BY <2>1, <2>2, <2>3 DEF n
<1>6. /\ U.self \/ U.at = "enter"
      /\ U.at \notin Masked \cup {"decrement", "read", "map", "handler"}
  BY <1>0, <1>4 DEF StackShape
<1>7. cache = "made" /\ signals # 0
  BY <1>4, InterruptedAt
<1> QED BY <1>1, <1>2, <1>3, <1>4, <1>5, <1>6, <1>7

\* A call begins above the running frame, which is a handler or a call that has
\* ended but for the releases that wait.
LEMMA Pushed ==
  ASSUME NestInv, stack # <<>>, NEW h, FrameOK(h), h.kind = Top.kind, NEW f, FrameOK(f),
         f.kind \in {"alloc", "free"}, f.at = "enter", ~f.self, ~f.cached,
         stack' = Append([stack EXCEPT ![Len(stack)] = h], f),
         (h.at = "deferred" /\ ~Busy(U)) \/ h.kind = "handler",
         cache = "made", UNCHANGED <<cache, count>>, T.self => h.self
  PROVE  StackShape' /\ U' = U /\ T' = f /\ (Handled' <=> Handled)
<1> DEFINE n == Len(stack)
           z == [stack EXCEPT ![n] = h]
           k == At
<1>0. StackShape
  BY DEF NestInv
<1>1. /\ n \in Nat \ {0} /\ DOMAIN stack = 1 .. n /\ stack \in Seq(FrameType)
      /\ T = stack[n] /\ T = Top
      /\ \A i \in 1 .. n : FrameOK(stack[i])
  BY <1>0, StackTop DEF StackShape
<1>2. h \in FrameType /\ f \in FrameType
  BY DEF FrameOK
<1>3. /\ z \in Seq(FrameType) /\ Len(z) = n /\ z[n] = h
      /\ \A i \in 1 .. n : i # n => z[i] = stack[i]
  <2>1. z = [stack EXCEPT ![n] = h]
    OBVIOUS
  <2> HIDE DEF z
  <2>2. z \in Seq(FrameType) /\ Len(z) = n
    BY <1>1, <1>2, <2>1
  <2> HIDE DEF n
  <2> QED BY <1>1, <2>1, <2>2
<1>4. stack' = Append(z, f)
  OBVIOUS
<1> HIDE DEF z
<1>5. /\ stack' \in Seq(FrameType) /\ Len(stack') = n + 1 /\ stack'[n + 1] = f
      /\ \A i \in 1 .. n : stack'[i] = z[i]
  <2> HIDE DEF n
  <2>1. z \in Seq(FrameType) /\ Len(z) = n /\ n \in Nat
    BY <1>1, <1>3
  <2>2. /\ Append(z, f) \in Seq(FrameType) /\ Len(Append(z, f)) = Len(z) + 1
        /\ \A i \in 1 .. Len(z) : Append(z, f)[i] = z[i]
        /\ Append(z, f)[Len(z) + 1] = f
    BY <1>2, <2>1, AppendProperties
  <2> QED BY <1>4, <2>1, <2>2
<1>6. stack' # <<>>
  <2> HIDE DEF n
  <2> QED BY <1>1, <1>5
<1>7. Handled => /\ k \in 2 .. n /\ stack[k].kind = "handler" /\ U = stack[k - 1]
                 /\ \A i \in 1 .. n : stack[i].kind = "handler" => i = k
  BY <1>0, HandlerFound
<1>8. /\ \A i \in 1 .. n - 1 : stack[i].at = "deferred" \/ (Handled /\ i \in {k - 1, k})
      /\ Handled => /\ U.self \/ U.at = "enter"
                    /\ U.at \notin Masked \cup {"decrement", "read", "map", "handler"}
      /\ count # 0 => \E i \in 1 .. n : stack[i].self
  BY <1>0 DEF StackShape
<1>9. Handled <=> \E i \in 1 .. n : stack[i].kind = "handler"
  BY DEF Handled
<1>10. T' = f
  BY <1>5, <1>6 DEF T, Top
<1> HIDE DEF n, k
<1>11. /\ \A i \in 1 .. n : i # n => stack'[i] = stack[i]
       /\ stack'[n] = h /\ n \in 1 .. n
  BY <1>1, <1>3, <1>5
<1>12. /\ \A i \in 1 .. n : stack'[i].kind = stack[i].kind /\ FrameOK(stack'[i])
       /\ \A i \in 1 .. n + 1 : i = n + 1 \/ i \in 1 .. n
       /\ \A i \in 1 .. n : i \in 1 .. n + 1
  <2>1. h.kind = stack[n].kind /\ FrameOK(h)
    BY <1>1
  <2>2. \A i \in 1 .. n : stack'[i].kind = stack[i].kind /\ FrameOK(stack'[i])
    BY <1>1, <1>11, <2>1
  <2>3. /\ \A i \in 1 .. n + 1 : i = n + 1 \/ i \in 1 .. n
        /\ \A i \in 1 .. n : i \in 1 .. n + 1
    BY <1>1
  <2> QED BY <2>2, <2>3
<1>13. \A i \in 1 .. n + 1 : FrameOK(stack'[i]) /\ (stack'[i].kind = "handler" => i \in 1 .. n)
  BY <1>5, <1>12
<1>14. Handled' <=> Handled
  <2>1. Handled' <=> \E i \in 1 .. n + 1 : stack'[i].kind = "handler"
    BY <1>5 DEF Handled
  <2> QED BY <1>9, <1>12, <1>13, <2>1
<1>15. Handled => At' = k /\ U' = U
  <2> SUFFICES ASSUME Handled PROVE At' = k /\ U' = U
    OBVIOUS
  <2>1. k \in 1 .. n /\ k - 1 \in 1 .. n /\ k - 1 # n
    BY <1>1, <1>7
  <2>2. (CHOOSE i \in 1 .. Len(stack') : stack'[i].kind = "handler") = k
    <3>1. k \in 1 .. Len(stack') /\ stack'[k].kind = "handler"
      BY <1>5, <1>7, <1>12, <2>1
    <3>2. \A i \in 1 .. Len(stack') : stack'[i].kind = "handler" => i = k
      BY <1>5, <1>7, <1>12, <1>13
    <3> QED BY <3>1, <3>2, OnlyHandler
  <2>3. At' = k
    BY <2>2 DEF At
  <2>4. U' = stack'[k - 1]
    BY <1>14, <2>3 DEF U
  <2> QED BY <1>7, <1>11, <2>1, <2>3, <2>4
<1>16. U' = U
  <2>1. ~Handled => U' = U
    BY <1>14 DEF U
  <2> QED BY <1>15, <2>1
<1>17. Handled /\ h.kind = "handler" => k = n
  BY <1>1, <1>7, <1>11
<1>18. h.kind = "handler" => Handled
  BY <1>1, <1>9, <1>11
<1>19. StackShape'
  <2>1. stack' \in Seq(FrameType) /\ \A i \in 1 .. Len(stack') : FrameOK(stack'[i])
    BY <1>5, <1>13
  <2>2. \A i, j \in 1 .. Len(stack') :
          stack'[i].kind = "handler" /\ stack'[j].kind = "handler" => i = j
    <3>1. \A i, j \in 1 .. n : stack[i].kind = "handler" /\ stack[j].kind = "handler" => i = j
      BY <1>7, <1>9
    <3> QED BY <1>5, <1>12, <1>13, <3>1
  <2>3. Handled' => /\ At' >= 2 /\ (Busy(U') => Len(stack') <= At' + 1)
                    /\ U'.self \/ U'.at = "enter"
                    /\ U'.at \notin Masked \cup {"decrement", "read", "map", "handler"}
    <3> SUFFICES ASSUME Handled
                 PROVE  /\ k >= 2 /\ (Busy(U) => n + 1 <= k + 1)
                        /\ U.self \/ U.at = "enter"
                        /\ U.at \notin Masked \cup {"decrement", "read", "map", "handler"}
      BY <1>5, <1>14, <1>15
    <3>1. k >= 2 /\ (k = n => n + 1 <= k + 1)
      BY <1>1, <1>7
    <3> QED BY <1>8, <1>17, <3>1
  <2>4. \A i \in 1 .. Len(stack') - 1 :
          stack'[i].at = "deferred" \/ (Handled' /\ i \in {At' - 1, At'})
    <3>1. Len(stack') - 1 = n /\ \A i \in 1 .. n : i = n \/ i \in 1 .. n - 1
      BY <1>1, <1>5
    <3>2. \A i \in 1 .. n - 1 : stack'[i] = stack[i]
      BY <1>1, <1>11
    <3>3. stack'[n].at = "deferred" \/ (Handled /\ n = k)
      BY <1>11, <1>17, <1>18
    <3> QED BY <1>8, <1>14, <1>15, <3>1, <3>2, <3>3
  <2>5. count' # 0 => cache' = "made" /\ \E i \in 1 .. Len(stack') : stack'[i].self
    <3> SUFFICES ASSUME count # 0 PROVE \E i \in 1 .. n + 1 : stack'[i].self
      BY <1>5
    <3>1. PICK i \in 1 .. n : stack[i].self
      BY <1>8
    <3>2. stack'[i].self
      BY <1>1, <1>11, <3>1
    <3> QED BY <1>12, <3>1, <3>2
  <2>6. /\ cache' = "made" /\ T'.at = "enter" /\ T'.kind \in {"alloc", "free"} /\ ~T'.cached /\ ~T'.self
    BY <1>10
  <2> QED BY <2>1, <2>2, <2>3, <2>4, <2>5, <2>6, Zenon DEF StackShape
<1> QED BY <1>10, <1>14, <1>16, <1>19

LEMMA HandlerCallStep ==
  ASSUME NestInv, HandlerCall
  PROVE  NestInv'
<1> DEFINE h == [Top EXCEPT !.n = @ + 1]
           z == [stack EXCEPT ![Len(stack)].n = @ + 1]
<1>0. NestingTypeOK /\ StackShape /\ Counts
  BY DEF NestInv
<1>1. Running({"handler"}) /\ (CallAlloc(z) \/ CallFree(z)) /\ signals' = signals /\ torn' = torn
  BY DEF HandlerCall
<1>2. /\ Handled /\ DOMAIN stack = 1 .. Len(stack) /\ Len(stack) \in Nat /\ Len(stack) >= 2
      /\ T = stack[Len(stack)] /\ T = Top /\ stack # <<>>
      /\ FrameOK(T) /\ T.at = "handler" /\ T.kind = "handler" /\ Inert(T)
      /\ cache = "made" /\ signals # 0
  BY <1>1, HandlerTop
<1>3. /\ UNCHANGED <<cache, avail, rel, depth, locks, count, deferred, free, queued, live>>
      /\ UNCHANGED <<locked, sweeping, masked, left, trapped, torn, signals>>
  BY <1>1 DEF CallAlloc, CallFree, Begin, cacheVars, nestVars, deferVars, heapVars, lockVars
<1>4. PICK f : /\ FrameOK(f) /\ f.at = "enter" /\ f.kind \in {"alloc", "free"} /\ ~f.self /\ ~f.cached
               /\ ~f.draining /\ stack' = Append(z, f)
               /\ \A x \in Slots : (x \in held' <=> x \in held /\ ~Has(f, x)) /\ (Has(f, x) => x \in held)
               /\ held' \in SUBSET Slots
  BY <1>1, CallFrame
<1>5. FrameOK(h) /\ h.kind = "handler" /\ ~T.self
  <2>1. T \in FrameType /\ T.kind = "handler" /\ ~T.self
    BY <1>2, HandlerInert DEF FrameOK
  <2>2. /\ h \in FrameType /\ h.kind = T.kind /\ h.at = T.at /\ h.self = T.self /\ h.arg = T.arg
        /\ h.cached = T.cached /\ h.draining = T.draining /\ h.back = T.back
    BY <1>2, <2>1 DEF FrameType
  <2> HIDE DEF h
  <2> QED BY <1>2, <2>1, <2>2 DEF FrameOK, InLock, Draining, Before
<1>6. z = [stack EXCEPT ![Len(stack)] = h]
  BY <1>2
<1> HIDE DEF h, z
<1>7. stack' = Append([stack EXCEPT ![Len(stack)] = h], f) /\ h.kind = Top.kind
  BY <1>2, <1>4, <1>5, <1>6
<1>8. StackShape' /\ U' = U /\ T' = f /\ (Handled' <=> Handled)
  BY <1>2, <1>3, <1>4, <1>5, <1>7, Pushed
<1>9. signals' \in 0 .. MaxSignals
  BY <1>0, <1>3 DEF NestingTypeOK
<1> QED BY <1>2, <1>3, <1>4, <1>8, <1>9, Called

\* The releases that wait are made one by one: the entry becomes a call.
LEMMA FreeDeferredStep ==
  ASSUME NestInv, FreeDeferred
  PROVE  NestInv'
<1> DEFINE d == deferred[Top.n - 1]
           f == Frame("free", "enter", d)
           h == [Top EXCEPT !.at = "deferred"]
           n == Len(stack)
           z == [stack EXCEPT ![n].at = "deferred"]
<1>0. NestingTypeOK /\ ~trapped /\ StackShape /\ Counts /\ LocksHeld /\ SlotsOnce
  BY DEF NestInv
<1>1. /\ stack # <<>> /\ T = Top /\ T = stack[n] /\ T.at = "read"
      /\ FrameOK(T) /\ T \in FrameType /\ U \in FrameType
  BY RunningTop DEF FreeDeferred
<1>2. /\ UNCHANGED <<cache, avail, rel, depth, locks, count, deferred, free, queued, live>>
      /\ UNCHANGED <<locked, sweeping, masked, signals, held, left, trapped, torn>>
      /\ stack' = Append(z, f)
  BY DEF FreeDeferred, Moves, cacheVars, nestVars, deferVars, heapVars, lockVars, progVars
<1>3. /\ T.self /\ T.kind # "handler" /\ d \in Slots /\ signals # 0 /\ cache = "made"
      /\ ~Locks(U) /\ ~Busy(U)
  <2>1. T.self /\ T.kind # "handler"
    BY <1>1 DEF FrameOK, Draining
  <2>2. signals # 0 /\ ~Locks(U) /\ ~Busy(U)
    BY <1>0, <1>1 DEF Counts, Outside, Draining
  <2>3. d \in Slots
    BY <1>0, <1>1 DEF SlotsOnce
  <2>4. cache = "made"
    BY <1>0, <2>1 DEF StackShape
  <2> QED BY <2>1, <2>2, <2>3, <2>4
<1>4. /\ f \in FrameType /\ f.kind = "free" /\ f.at = "enter" /\ f.arg = d /\ ~f.self /\ ~f.cached
      /\ ~f.draining /\ f.back = "leave"
  BY <1>3, NewFrame DEF Kinds, Places
<1>5. Is(h, T, "deferred", T.self, T.got, T.n, T.job, T.cached, T.draining, T.swept, T.back)
  BY <1>1, BecomingAt DEF Places
<1> HIDE DEF d, f, h
<1>6. FrameOK(f) /\ FrameOK(h) /\ h.at = "deferred" /\ h.kind = T.kind /\ h.self
  <2>1. FrameOK(f)
    BY <1>3, <1>4, NewFrameOK
  <2>2. FrameOK(h)
    BY <1>1, <1>5 DEF FrameOK, Is, InLock, Draining, Before
  <2> QED BY <1>3, <1>5, <2>1, <2>2 DEF Is
<1>7. n \in Nat \ {0} /\ DOMAIN stack = 1 .. n
  BY <1>0, <1>1, StackTop
<1>8. z = [stack EXCEPT ![n] = h]
  BY <1>1, <1>7 DEF h
<1>9. stack' = Append([stack EXCEPT ![Len(stack)] = h], f)
  BY <1>2, <1>8
<1> HIDE DEF n, z
<1>10. StackShape' /\ U' = U /\ T' = f /\ (Handled' <=> Handled)
  BY <1>1, <1>2, <1>3, <1>4, <1>6, <1>9, Pushed
<1>17. NestingTypeOK' /\ ~trapped'
  <2>1. \A i \in 1 .. Len(stack') : stack'[i] \in FrameType
    BY <1>10 DEF StackShape, FrameOK
  <2> QED BY <1>0, <1>2, <2>1 DEF NestingTypeOK
<1>18. ~Busy(T) /\ ~Locks(T) /\ ~Busy(f) /\ ~Locks(f)
  BY <1>1, <1>4 DEF Busy, Locks, Draining
<1>19. Counts'
  BY <1>0, <1>2, <1>3, <1>4, <1>10, <1>18 DEF Counts
<1>20. LocksHeld'
  BY <1>0, <1>1, <1>2, <1>3, <1>4, <1>10, StepLocks DEF Holds, Sweeping, Masked
<1>21. SlotsOnce'
  <2>1. \A s \in Slots : (Has(f, s) <=> Has(T, s)) /\ (Unclaimed(f, s) <=> Unclaimed(T, s))
    BY <1>1, <1>4 DEF Has, Unclaimed, InLock, d
  <2>2. ~Returns(f) /\ ~Returns(T) /\ ~Flushes(f) /\ ~Flushes(T) /\ f.at # "read" /\ ~f.cached
    BY <1>1, <1>4 DEF Returns, Flushes, InLock
  <2> QED BY <1>0, <1>2, <1>3, <1>10, <2>1, <2>2, StepSlots
<1> QED BY <1>10, <1>17, <1>19, <1>20, <1>21 DEF NestInv

\* A handler returns to the call it interrupted.
LEMMA HandlerReturnStep ==
  ASSUME NestInv, HandlerReturn
  PROVE  NestInv'
<1>0. NestingTypeOK /\ ~trapped /\ StackShape /\ Counts /\ LocksHeld /\ SlotsOnce
  BY DEF NestInv
<1>1. /\ UNCHANGED <<cache, avail, rel, depth, locks, count, deferred, free, queued, live>>
      /\ UNCHANGED <<locked, sweeping, masked, signals, held, left, trapped, torn>>
      /\ Running({"handler"}) /\ stack' = SubSeq(stack, 1, Len(stack) - 1)
  BY DEF HandlerReturn, Return, Moves, cacheVars, nestVars, deferVars, heapVars, lockVars, progVars
<1>2. /\ Handled /\ At = Len(stack) /\ Len(stack) \in Nat /\ Len(stack) >= 2
      /\ U = stack[Len(stack) - 1] /\ T = stack[Len(stack)] /\ T = Top
      /\ FrameOK(T) /\ FrameOK(U) /\ T.at = "handler" /\ T.kind = "handler" /\ Inert(T)
      /\ U.self \/ U.at = "enter"
      /\ U.at \notin Masked \cup {"decrement", "read", "map", "handler"}
      /\ cache = "made" /\ signals # 0
  BY <1>1, HandlerTop
<1>4. U.kind \in {"alloc", "free"} /\ U.at # "defer" /\ (Locks(U) => U.self)
  BY <1>2 DEF FrameOK, Locks
<1>5. StackShape' /\ U' = Rest /\ T' = U /\ ~Handled'
  <2> DEFINE n == Len(stack)
  <2>1. /\ n \in Nat /\ n >= 2 /\ stack[n].kind = "handler" /\ ~stack[n].self /\ U = stack[n - 1]
        /\ n \in 1 .. n
    BY <1>2, HandlerInert
  <2>2. /\ stack \in Seq(FrameType) /\ \A i \in 1 .. n : FrameOK(stack[i])
        /\ \A i, j \in 1 .. n : stack[i].kind = "handler" /\ stack[j].kind = "handler" => i = j
        /\ \A i \in 1 .. n - 1 : stack[i].at = "deferred" \/ i \in {n - 1, n}
        /\ count # 0 => \E i \in 1 .. n : stack[i].self
    BY <1>0, <1>2 DEF StackShape
  <2>3. /\ stack' \in Seq(FrameType) /\ Len(stack') = n - 1
        /\ \A i \in 1 .. n - 1 : stack'[i] = stack[i]
    BY <1>1, <2>1, <2>2, SubSeqProperties
  <2> HIDE DEF n
  <2>4. n - 1 \in 1 .. n - 1 /\ Len(stack') # 0
    BY <2>1, <2>3
  <2>5. stack' # <<>>
    BY <2>4
  <2>6. T' = U
    BY <2>1, <2>3, <2>4, <2>5 DEF T, Top
  <2>7. \A i \in 1 .. n - 1 : i \in 1 .. n /\ i # n
    BY <2>1
  <2>8. \A i \in 1 .. n - 1 : stack'[i].kind # "handler" /\ FrameOK(stack'[i])
    BY <2>1, <2>2, <2>3, <2>7
  <2>9. ~Handled'
    BY <2>3, <2>8 DEF Handled
  <2>10. U' = Rest
    BY <2>9 DEF U
  <2>11. \A i \in 1 .. Len(stack') - 1 : stack'[i].at = "deferred"
    <3>1. \A i \in 1 .. (n - 1) - 1 : i \in 1 .. n - 1 /\ i \notin {n - 1, n}
      BY <2>1
    <3> QED BY <2>2, <2>3, <3>1
  <2>12. count' # 0 => \E i \in 1 .. Len(stack') : stack'[i].self
    <3> SUFFICES ASSUME count # 0 PROVE \E i \in 1 .. n - 1 : stack[i].self
      BY <1>1, <2>3
    <3>1. PICK i \in 1 .. n : stack[i].self
      BY <2>2
    <3>2. i \in 1 .. n - 1
      BY <2>1, <3>1
    <3> QED BY <3>1, <3>2
  <2>13. /\ cache' = "made" /\ T'.at # "map" /\ T'.kind # "drop"
         /\ T'.self \/ T'.at \in {"enter", "defer", "handler"}
    BY <1>1, <1>2, <1>4, <2>6
  <2> QED BY <2>3, <2>6, <2>8, <2>9, <2>10, <2>11, <2>12, <2>13, Zenon DEF StackShape
<1>6. Inert(Rest) /\ Rest.at = "handler"
  BY RestOK, HandlerInert
<1>7. NestingTypeOK' /\ ~trapped'
  <2>1. \A i \in 1 .. Len(stack') : stack'[i] \in FrameType
    BY <1>5 DEF StackShape, FrameOK
  <2> QED BY <1>0, <1>1, <2>1 DEF NestingTypeOK
<1>8. Counts'
  <2>1. ~Busy(T) /\ ~Locks(T) /\ ~Busy(Rest) /\ ~Locks(Rest)
    BY <1>2, <1>6 DEF Inert
  <2> QED BY <1>0, <1>1, <1>2, <1>4, <1>5, <2>1 DEF Counts
<1>9. LocksHeld'
  <2>1. Holds(T) = {} /\ Holds(Rest) = {} /\ T.at \notin Sweeping \cup Masked /\ Rest.at \notin Sweeping \cup Masked
    BY <1>2, <1>6 DEF Inert
  <2> QED BY <1>0, <1>1, <1>2, <1>5, <2>1 DEF LocksHeld
<1>10. SlotsOnce'
  <2>1. /\ \A s : ~Has(T, s) /\ ~Unclaimed(T, s)
        /\ ~Returns(T) /\ ~Flushes(T) /\ ~Returns(Rest) /\ ~Flushes(Rest) /\ ~Rest.cached
    BY <1>2, <1>6, RestOK DEF Inert
  <2>2. Available' = Available /\ Unflushed' = Unflushed
    BY <1>1, <1>5, <2>1 DEF Available, Unflushed
  <2>3. \A s : ~Has(U, s)' /\ ~Unclaimed(U, s)'
    <3>1. U'.at = "handler" /\ U'.kind = "handler"
      BY <1>5, RestOK
    <3> QED BY <3>1 DEF Has, Unclaimed, InLock
  <2>4. \A s : (Has(T, s)' <=> Has(U, s)) /\ (Unclaimed(T, s)' <=> Unclaimed(U, s))
    BY <1>1, <1>5 DEF Has, Unclaimed
  <2>5. Entries' = Entries
    BY <1>1 DEF Entries
  <2>6. ASSUME NEW s \in Slots
        PROVE  One(s \in held, s \in left, s \in free, s \in queued, s \in Available,
                   s \in Unflushed, s \in Entries, Has(U, s), Has(T, s))'
    <3>1. One(s \in held, s \in left, s \in free, s \in queued, s \in Available,
              s \in Unflushed, s \in Entries, Has(U, s), Has(T, s))
      BY <1>0 DEF SlotsOnce
    <3> QED BY <1>1, <2>1, <2>2, <2>3, <2>4, <2>5, <3>1 DEF One
  <2>7. ASSUME NEW s \in Slots
        PROVE  (s \in live <=> s \in held \cup left \cup Entries \/ Unclaimed(U, s) \/ Unclaimed(T, s))'
    <3>1. s \in live <=> s \in held \cup left \cup Entries \/ Unclaimed(U, s) \/ Unclaimed(T, s)
      BY <1>0 DEF SlotsOnce
    <3> QED BY <1>1, <2>1, <2>3, <2>4, <2>5, <3>1
  <2>8. /\ \A i, j \in 0 .. count' - 1 : deferred'[i] = deferred'[j] => i = j
        /\ \A i \in 0 .. count' - 1 : deferred'[i] \in Slots
        /\ U'.cached => avail' = {} \/ U'.at \in Draining \cup {"leave"}
        /\ T'.cached => avail' = {} \/ T'.at \in Draining \cup {"leave"}
        /\ T'.at # "read"
    BY <1>0, <1>1, <1>2, <1>5, <2>1 DEF SlotsOnce
  <2> QED BY <2>6, <2>7, <2>8, Zenon DEF SlotsOnce
<1> QED BY <1>5, <1>7, <1>8, <1>9, <1>10 DEF NestInv

\* A signal interrupts a call while no other handler runs and no update of
\* deferred is in progress.
LEMMA SignalStep ==
  ASSUME OneAtATime, NestInv, Signal, ~Updating
  PROVE  NestInv'
<1>0. NestingTypeOK /\ ~trapped /\ StackShape /\ Counts /\ LocksHeld /\ SlotsOnce
  BY DEF NestInv
<1>1. /\ UNCHANGED <<cache, avail, rel, depth, locks, count, deferred, free, queued, live>>
      /\ UNCHANGED <<locked, sweeping, masked, held, left, trapped>>
      /\ torn' \in BOOLEAN
      /\ stack # <<>> /\ Top.kind # "handler" /\ ~masked /\ Counted /\ ~Interrupted
      /\ stack' = Append(stack, Rest)
  BY DEF Signal, Begin, OneAtATime, Rest, cacheVars, nestVars, deferVars, heapVars, lockVars
<1>2. signals' # 0 /\ signals' \in 0 .. MaxSignals
  BY <1>0, NestingAssumption DEF Signal, NestingTypeOK
<1>3. /\ Len(stack) \in Nat \ {0} /\ stack \in Seq(FrameType) /\ T = stack[Len(stack)]
      /\ FrameOK(T) /\ T = Top
  BY <1>0, <1>1, StackTop DEF StackShape
<1>4. ~Handled /\ U = Rest
  BY <1>1 DEF Handled, Interrupted, U
<1>5. cache = "made" /\ (T.self \/ T.at = "enter")
  <2>1. cache = "made" /\ (stack[1].self \/ stack[1].at = "enter")
    <3>1. Counted
      BY <1>1
    <3> QED BY <3>1 DEF Counted, OwnCache
  <2>2. Len(stack) >= 2 => T.self \/ T.at \in {"enter", "defer", "handler"}
    BY <1>0 DEF StackShape
  <2>3. T.at # "handler" /\ T.at # "defer"
    BY <1>1, <1>3 DEF FrameOK, Updating
  <2> DEFINE m == Len(stack)
  <2>4. m \in Nat \ {0} /\ T = stack[m] /\ (m >= 2 => T.self \/ T.at = "enter")
    BY <1>3, <2>2, <2>3
  <2> HIDE DEF m
  <2>5. m >= 2 \/ m = 1
    BY <2>4
  <2>6. CASE m = 1
    BY <2>1, <2>4, <2>6
  <2> QED BY <2>1, <2>4, <2>5, <2>6
<1>6. T.at \notin Masked \cup {"decrement", "read", "map", "handler", "defer"}
  <2>1. T.at \notin Masked
    BY <1>0, <1>1 DEF LocksHeld
  <2>2. T.at \notin {"decrement", "read", "defer"}
    BY <1>3 DEF Updating
  <2>3. T.at # "map"
    BY <1>0, <1>5 DEF StackShape
  <2>4. T.at # "handler"
    BY <1>1, <1>3 DEF FrameOK
  <2> QED BY <2>1, <2>2, <2>3, <2>4
<1>7. Inert(Rest) /\ Rest.at = "handler" /\ Rest.kind = "handler" /\ FrameOK(Rest) /\ Rest \in FrameType
  BY RestOK, HandlerInert DEF FrameOK
<1> DEFINE n == Len(stack)
<1>8. /\ stack' \in Seq(FrameType) /\ Len(stack') = n + 1
      /\ \A i \in 1 .. n : stack'[i] = stack[i]
      /\ stack'[n + 1] = Rest
  <2>1. stack \in Seq(FrameType) /\ stack' = Append(stack, Rest) /\ Rest \in FrameType
    BY <1>1, <1>3, <1>7
  <2> QED BY <2>1, AppendProperties
<1>16. /\ \A i \in 1 .. n : FrameOK(stack[i]) /\ stack[i].kind # "handler"
       /\ \A i \in 1 .. n - 1 : stack[i].at = "deferred"
       /\ count # 0 => \E i \in 1 .. n : stack[i].self
  BY <1>0, <1>4 DEF StackShape, Handled
<1>17. n \in Nat \ {0} /\ T = stack[n]
  BY <1>3
<1> HIDE DEF n
<1>18. /\ n \in 1 .. n /\ n + 1 \in 1 .. n + 1 /\ (n + 1) - 1 = n /\ n + 1 >= 2 /\ n + 1 <= n + 2
       /\ \A i \in 1 .. n : i \in 1 .. n + 1
       /\ \A i \in 1 .. n + 1 : i = n + 1 \/ i \in 1 .. n
       /\ \A i \in 1 .. n : i = n \/ i \in 1 .. n - 1
       /\ \A i \in 1 .. n - 1 : i \in 1 .. n
  BY <1>17
<1>9. Handled' /\ At' = n + 1 /\ U' = T /\ T' = Rest /\ stack' # <<>>
  <2>1. Handled'
    BY <1>7, <1>8, <1>18 DEF Handled
  <2>2. (CHOOSE i \in 1 .. Len(stack') : stack'[i].kind = "handler") = n + 1
    <3>1. n + 1 \in 1 .. Len(stack') /\ stack'[n + 1].kind = "handler"
      BY <1>7, <1>8, <1>18
    <3>2. \A i \in 1 .. Len(stack') : stack'[i].kind = "handler" => i = n + 1
      BY <1>8, <1>16, <1>18
    <3> QED BY <3>1, <3>2, OnlyHandler
  <2>3. At' = n + 1
    BY <2>2 DEF At
  <2>4. U' = stack'[n]
    BY <1>18, <2>1, <2>3 DEF U
  <2>5. U' = T
    BY <1>8, <1>17, <1>18, <2>4
  <2>6. stack' # <<>>
    BY <1>8, <1>17
  <2>7. T' = Rest
    BY <1>8, <2>6 DEF T, Top
  <2> QED BY <2>1, <2>3, <2>5, <2>6, <2>7
<1>10. StackShape'
  <2>1. stack' \in Seq(FrameType) /\ \A i \in 1 .. Len(stack') : FrameOK(stack'[i])
    BY <1>7, <1>8, <1>16, <1>18
  <2>2. \A i, j \in 1 .. Len(stack') :
          stack'[i].kind = "handler" /\ stack'[j].kind = "handler" => i = j
    BY <1>8, <1>16, <1>18
  <2>3. Handled' => /\ At' >= 2 /\ (Busy(U') => Len(stack') <= At' + 1)
                    /\ U'.self \/ U'.at = "enter"
                    /\ U'.at \notin Masked \cup {"decrement", "read", "map", "handler"}
    <3>1. At' >= 2 /\ Len(stack') <= At' + 1
      BY <1>8, <1>9, <1>17
    <3> QED BY <1>5, <1>6, <1>9, <3>1
  <2>4. \A i \in 1 .. Len(stack') - 1 :
          stack'[i].at = "deferred" \/ (Handled' /\ i \in {At' - 1, At'})
    BY <1>8, <1>9, <1>16, <1>18
  <2>5. count' # 0 => cache' = "made" /\ \E i \in 1 .. Len(stack') : stack'[i].self
    BY <1>1, <1>5, <1>8, <1>16, <1>18
  <2>6. /\ cache' = "made" /\ T'.at = "handler" /\ ~T'.cached /\ T'.kind = "handler" /\ ~T'.self
    BY <1>1, <1>5, <1>9, RestOK
  <2> QED BY <2>1, <2>2, <2>3, <2>4, <2>5, <2>6, Zenon DEF StackShape
<1>11. NestingTypeOK' /\ ~trapped'
  <2>1. \A i \in 1 .. Len(stack') : stack'[i] \in FrameType
    BY <1>10 DEF StackShape, FrameOK
  <2> QED BY <1>0, <1>1, <1>2, <2>1 DEF NestingTypeOK
<1>12. ~Busy(Rest) /\ ~Locks(Rest) /\ Outside(Rest) /\ Holds(Rest) = {} /\ Rest.at \notin Sweeping \cup Masked
  BY <1>7, RestOK DEF Inert, Outside, InLock, Sweeping, Draining
<1>13. Counts'
  BY <1>0, <1>1, <1>2, <1>4, <1>6, <1>7, <1>9, <1>12 DEF Counts
<1>14. LocksHeld'
  BY <1>0, <1>1, <1>4, <1>6, <1>9, <1>12 DEF LocksHeld
<1>15. SlotsOnce'
  <2>1. ~Returns(Rest) /\ ~Flushes(Rest) /\ ~Rest.cached
    BY <1>7, RestOK DEF Inert
  <2>2. Available' = Available /\ Unflushed' = Unflushed
    BY <1>1, <1>4, <1>9, <2>1 DEF Available, Unflushed
  <2>3. \A s : ~Has(T, s)' /\ ~Unclaimed(T, s)' /\ ~Has(U, s) /\ ~Unclaimed(U, s)
    <3>1. T'.at = "handler" /\ T'.kind = "handler" /\ U.at = "handler" /\ U.kind = "handler"
      BY <1>4, <1>7, <1>9
    <3> QED BY <3>1 DEF Has, Unclaimed, InLock
  <2>4. \A s : (Has(U, s)' <=> Has(T, s)) /\ (Unclaimed(U, s)' <=> Unclaimed(T, s))
    BY <1>1, <1>9 DEF Has, Unclaimed
  <2>5. Entries' = Entries
    BY <1>1 DEF Entries
  <2>6. ASSUME NEW s \in Slots
        PROVE  One(s \in held, s \in left, s \in free, s \in queued, s \in Available,
                   s \in Unflushed, s \in Entries, Has(U, s), Has(T, s))'
    <3>1. One(s \in held, s \in left, s \in free, s \in queued, s \in Available,
              s \in Unflushed, s \in Entries, Has(U, s), Has(T, s))
      BY <1>0 DEF SlotsOnce
    <3> QED BY <1>1, <2>2, <2>3, <2>4, <2>5, <3>1 DEF One
  <2>7. ASSUME NEW s \in Slots
        PROVE  (s \in live <=> s \in held \cup left \cup Entries \/ Unclaimed(U, s) \/ Unclaimed(T, s))'
    <3>1. s \in live <=> s \in held \cup left \cup Entries \/ Unclaimed(U, s) \/ Unclaimed(T, s)
      BY <1>0 DEF SlotsOnce
    <3> QED BY <1>1, <2>3, <2>4, <2>5, <3>1
  <2>8. /\ \A i, j \in 0 .. count' - 1 : deferred'[i] = deferred'[j] => i = j
        /\ \A i \in 0 .. count' - 1 : deferred'[i] \in Slots
        /\ U'.cached => avail' = {} \/ U'.at \in Draining \cup {"leave"}
        /\ T'.cached => avail' = {} \/ T'.at \in Draining \cup {"leave"}
        /\ T'.at # "read"
    BY <1>0, <1>1, <1>7, <1>9, <2>1 DEF SlotsOnce
  <2> QED BY <2>6, <2>7, <2>8, Zenon DEF SlotsOnce
<1> QED BY <1>10, <1>11, <1>13, <1>14, <1>15 DEF NestInv

-----------------------------------------------------------------------------
(* The invariant holds, and what follows from it.                          *)
(***************************************************************************)
LEMMA NestingStart ==
  ASSUME NestingInit
  PROVE  NestInv
<1>1. /\ cache = "none" /\ avail = {} /\ rel = {} /\ depth = 0 /\ locks = 0 /\ count = 0
      /\ deferred = [i \in 0 .. DeferredLimit - 1 |-> None]
      /\ free = Slots /\ queued = {} /\ live = {} /\ locked = {} /\ ~sweeping /\ ~masked
      /\ sweeping \in BOOLEAN /\ masked \in BOOLEAN /\ trapped \in BOOLEAN /\ torn \in BOOLEAN
      /\ stack = <<>> /\ signals = 0 /\ held = {} /\ left = {} /\ ~trapped
  BY DEF NestingInit
<1>2. Len(stack) = 0 /\ stack \in Seq(FrameType) /\ 1 .. Len(stack) = {}
  BY <1>1
<1>3. ~Handled /\ U = Rest /\ T = Rest
  <2>1. ~Handled
    BY <1>2 DEF Handled
  <2> QED BY <1>1, <2>1 DEF U, T
<1>4. Inert(Rest) /\ Rest.at = "handler" /\ Rest.kind = "handler" /\ ~Rest.self /\ ~Rest.cached
  BY RestOK, HandlerInert
<1>5. NestingTypeOK /\ ~trapped
  <2>1. DeferredLimit \in Nat \ {0} /\ MaxSignals \in Nat
    BY NestingAssumption
  <2>2. count \in 0 .. DeferredLimit /\ signals \in 0 .. MaxSignals /\ depth \in Nat /\ locks \in Int
    BY <1>1, <2>1
  <2>3. deferred \in [0 .. DeferredLimit - 1 -> Slots \cup {None}]
    BY <1>1
  <2>4. \A i \in 1 .. Len(stack) : stack[i] \in FrameType
    BY <1>2
  <2> QED BY <1>1, <2>2, <2>3, <2>4 DEF NestingTypeOK
<1>6. StackShape
  BY <1>1, <1>2, <1>3, <1>4 DEF StackShape
<1>7. Counts
  BY <1>1, <1>3, <1>4 DEF Counts, Inert
<1>8. LocksHeld
  BY <1>1, <1>3, <1>4 DEF LocksHeld, Inert
<1>9. SlotsOnce
  <2>1. Available = {} /\ Unflushed = {} /\ Entries = {}
    <3>1. 0 .. count - 1 = {}
      BY <1>1
    <3> QED BY <1>1, <1>3, <1>4, <3>1 DEF Available, Unflushed, Entries, Inert
  <2>2. \A s : ~Has(U, s) /\ ~Has(T, s) /\ ~Unclaimed(U, s) /\ ~Unclaimed(T, s)
    BY <1>3, <1>4 DEF Inert
  <2>3. \A s \in Slots :
          One(s \in held, s \in left, s \in free, s \in queued, s \in Available,
              s \in Unflushed, s \in Entries, Has(U, s), Has(T, s))
    BY <1>1, <2>1, <2>2 DEF One
  <2>4. \A s \in Slots :
          s \in live <=> s \in held \cup left \cup Entries \/ Unclaimed(U, s) \/ Unclaimed(T, s)
    BY <1>1, <2>1, <2>2
  <2>5. /\ \A i, j \in 0 .. count - 1 : deferred[i] = deferred[j] => i = j
        /\ \A i \in 0 .. count - 1 : deferred[i] \in Slots
    BY <1>1
  <2> QED BY <1>3, <1>4, <2>3, <2>4, <2>5 DEF SlotsOnce
<1> QED BY <1>5, <1>6, <1>7, <1>8, <1>9 DEF NestInv

\* Steps that do one of two things.
LEMMA MakeCacheStep ==
  ASSUME NestInv, MakeCache
  PROVE  NestInv'
<1>1. CASE Go("choose") /\ UNCHANGED <<cacheVars, nestVars>>
  <2>1. Moves
    BY <1>1 DEF MakeCache, Moves
  <2> QED BY <1>1, <2>1, MapFailsStep
<1>2. CASE cache' = "made" /\ Section("list")
  BY <1>2, CacheMade
<1> QED BY <1>1, <1>2 DEF MakeCache

LEMMA RefilledEither ==
  ASSUME NestInv, Refilled
  PROVE  NestInv'
<1>1. CASE Top.got = {} /\ Go("nothing") /\ UNCHANGED <<cacheVars, live, held>>
  <2>1. Moves
    BY <1>1 DEF Refilled, Moves, heapVars, progVars
  <2> QED BY <1>1, <2>1, NoRefillStep
<1>2. CASE \E s \in Top.got : /\ avail' = Top.got \ {s} /\ MadeLive(s) /\ Go("leave")
                              /\ UNCHANGED <<cache, rel>>
  BY <1>2, RefilledStep
<1> QED BY <1>1, <1>2 DEF Refilled

LEMMA TakeUncachedEither ==
  ASSUME NestInv, TakeUncached
  PROVE  NestInv'
<1>1. CASE Top.got = {} /\ Go("nothing") /\ UNCHANGED <<live, held>>
  <2>1. Moves
    BY <1>1 DEF TakeUncached, Moves, heapVars, progVars
  <2> QED BY <1>1, <2>1, NoSlotStep
<1>2. CASE \E s \in Top.got : MadeLive(s) /\ Go("leave")
  BY <1>2, TakeUncachedStep
<1> QED BY <1>1, <1>2 DEF TakeUncached

LEMMA ChooseFreeStep ==
  ASSUME NestInv, ChooseFree
  PROVE  NestInv'
<1>1. CASE Cached /\ rel' = rel \cup {Top.arg} /\ Section("flush")
  BY <1>1, FullCacheStep
<1>2. CASE Cached /\ rel' = rel \cup {Top.arg} /\ Go("leave")
  BY <1>2, ToCacheStep
<1>3. CASE ~Cached /\ UNCHANGED rel
  <2>1. Moves
    BY <1>3 DEF ChooseFree, Moves, cacheVars
  <2> QED BY <1>3, <2>1, RetireStep
<1> QED BY <1>1, <1>2, <1>3 DEF ChooseFree

LEMMA TrySweepStep ==
  ASSUME NestInv, TrySweep
  PROVE  NestInv'
<1>1. CASE Go(Top.back) /\ UNCHANGED sweeping
  <2>1. Moves
    BY <1>1 DEF TrySweep, Moves, lockVars
  <2> QED BY <1>1, <2>1, NoSweepStep
<1>2. CASE ~sweeping /\ sweeping' = TRUE
  BY <1>2, SweepBegins
<1> QED BY <1>1, <1>2 DEF TrySweep

LEMMA BudgetStep ==
  ASSUME NestInv, Budget
  PROVE  NestInv'
<1>1. Running({"budget"}) /\ Moves
  BY DEF Budget
<1> QED BY <1>1, NoBudgetStep, OverBudgetStep DEF Budget

\* Every step keeps the invariant.
LEMMA NestingStep ==
  ASSUME OneAtATime, NestInv, NestingNext, ~torn'
  PROVE  NestInv'
<1>0. CASE Signal
  <2>1. ~Updating
    BY <1>0 DEF Signal
  <2> QED BY <1>0, <2>1, SignalStep
<1>1. CASE Call \/ Exit \/ HandlerCall \/ HandlerReturn
  BY <1>1, CallStep, ExitStep, HandlerCallStep, HandlerReturnStep
<1>2. CASE Enter
  BY <1>2, EnterStep
<1>3. CASE RefuseAlloc
  BY <1>3, RefuseAllocStep
<1>4. CASE DeferFree
  BY <1>4, DeferStartStep, LeftStep DEF DeferFree
<1>5. CASE Defer
  BY <1>5, DeferStep
<1>6. CASE Leave
  BY <1>6, LeaveStep, LastLeaves
<1>7. CASE TestDeferred
  BY <1>7, TestDeferredStep, NoDeferredStep
<1>8. CASE Decrement \/ FreeDeferred
  BY <1>8, DecrementStep, FreeDeferredStep
<1>9. CASE Take \/ Lock \/ Give
  BY <1>9, TakeStep, LockStep, GiveStep
<1>10. CASE Work
  BY <1>10, WorkMoves, WorkStep
<1>11. CASE Claim \/ FindCache \/ MakeCache
  BY <1>11, ClaimStep, FindCacheStep, MakeCacheStep
<1>12. CASE ChooseAlloc \/ PopClass
  BY <1>12, ChooseAllocStep, PopClassStep
<1>13. CASE TakeCached
  BY <1>13, TakeCachedStep DEF TakeCached
<1>14. CASE Refilled \/ TakeUncached
  BY <1>14, RefilledEither, TakeUncachedEither
<1>15. CASE Nothing
  BY <1>15, SweepOnceStep, GiveUpStep
<1>16. CASE ChooseFree \/ Budget \/ Drain
  BY <1>16, ChooseFreeStep, BudgetStep, DrainStep
<1>17. CASE Flushed
  BY <1>17, DrainFlushed, OnlyFlushed
<1>18. CASE ReturnSlots
  BY <1>18, ReturnOneStep, ReturnedStep
<1>19. CASE Sweep \/ TrySweep \/ Mask \/ LockAll
  BY <1>19, SweepStep, TrySweepStep, MaskStep, LockAllStep
<1>20. CASE Recycle
  BY <1>20, RecycleStep DEF Recycle
<1>21. CASE Unmask \/ Unsweep
  BY <1>21, UnmaskStep, UnsweepStep
<1> QED BY <1>0, <1>1, <1>2, <1>3, <1>4, <1>5, <1>6, <1>7, <1>8, <1>9, <1>10, <1>11, <1>12, <1>13, <1>14,
           <1>15, <1>16, <1>17, <1>18, <1>19, <1>20, <1>21 DEF NestingNext

LEMMA NestingStutter ==
  ASSUME NestInv, UNCHANGED nestingVars
  PROVE  NestInv'
<1>1. /\ UNCHANGED <<cache, avail, rel, depth, locks, count, deferred, free, queued, live>>
      /\ UNCHANGED <<locked, sweeping, masked, stack, signals, held, left, trapped, torn>>
  BY DEF nestingVars, cacheVars, nestVars, deferVars, heapVars, lockVars, progVars
<1>2. Handled' <=> Handled
  BY <1>1 DEF Handled
<1>3. U' = U /\ T' = T /\ Top' = Top /\ At' = At
  BY <1>1, <1>2 DEF U, T, Top, At
<1>4. NestingTypeOK' /\ ~trapped'
  BY <1>1 DEF NestInv, NestingTypeOK
<1>5. StackShape'
  BY <1>1, <1>2, <1>3 DEF NestInv, StackShape, Busy
<1>6. Counts' /\ LocksHeld'
  BY <1>1, <1>2, <1>3 DEF NestInv, Counts, LocksHeld
<1>7. SlotsOnce'
  <2>1. Available' = Available /\ Unflushed' = Unflushed /\ Entries' = Entries
    BY <1>1, <1>3 DEF Available, Unflushed, Entries
  <2>2. \A s : /\ (Has(T, s)' <=> Has(T, s)) /\ (Has(U, s)' <=> Has(U, s))
              /\ (Unclaimed(T, s)' <=> Unclaimed(T, s)) /\ (Unclaimed(U, s)' <=> Unclaimed(U, s))
    BY <1>1, <1>3 DEF Has, Unclaimed
  <2>3. ASSUME NEW s \in Slots
        PROVE  One(s \in held, s \in left, s \in free, s \in queued, s \in Available,
                   s \in Unflushed, s \in Entries, Has(U, s), Has(T, s))'
    <3>1. One(s \in held, s \in left, s \in free, s \in queued, s \in Available,
              s \in Unflushed, s \in Entries, Has(U, s), Has(T, s))
      BY DEF NestInv, SlotsOnce
    <3> QED BY <1>1, <2>1, <2>2, <3>1 DEF One
  <2>4. \A s \in Slots :
          (s \in live <=> s \in held \cup left \cup Entries \/ Unclaimed(U, s) \/ Unclaimed(T, s))'
    BY <1>1, <2>1, <2>2 DEF NestInv, SlotsOnce
  <2>5. /\ \A i, j \in 0 .. count' - 1 : deferred'[i] = deferred'[j] => i = j
        /\ \A i \in 0 .. count' - 1 : deferred'[i] \in Slots
        /\ T'.at = "read" => deferred'[T'.n - 1] \in Slots
        /\ U'.cached => avail' = {} \/ U'.at \in Draining \cup {"leave"}
        /\ T'.cached => avail' = {} \/ T'.at \in Draining \cup {"leave"}
    BY <1>1, <1>3 DEF NestInv, SlotsOnce
  <2> QED BY <2>3, <2>4, <2>5, Zenon DEF SlotsOnce
<1> QED BY <1>4, <1>5, <1>6, <1>7 DEF NestInv

\* A handler that ran inside an update of deferred is remembered.
LEMMA TornStays ==
  ASSUME torn, [NestingNext]_nestingVars
  PROVE  torn'
<1>1. CASE UNCHANGED nestingVars
  BY <1>1 DEF nestingVars, progVars
<1>2. CASE Call \/ Signal \/ HandlerCall \/ HandlerReturn \/ Exit
  BY <1>2 DEF Call, Signal, HandlerCall, HandlerReturn, Exit, Moves, progVars
<1>3. CASE Enter \/ RefuseAlloc \/ DeferFree \/ Defer \/ Leave \/ TestDeferred \/ Decrement \/ FreeDeferred
  BY <1>3 DEF Enter, RefuseAlloc, DeferFree, Defer, Leave, TestDeferred, Decrement, FreeDeferred, Moves,
     progVars
<1>4. CASE Take \/ Lock \/ Work \/ Give
  BY <1>4 DEF Take, Lock, Work, Give, progVars
<1>5. CASE Claim \/ FindCache \/ MakeCache \/ ChooseAlloc \/ PopClass \/ TakeCached \/ Refilled
  BY <1>5 DEF Claim, FindCache, MakeCache, ChooseAlloc, PopClass, TakeCached, Refilled, Moves, progVars
<1>6. CASE TakeUncached \/ Nothing \/ ChooseFree \/ Flushed \/ Budget \/ Drain \/ ReturnSlots
  BY <1>6 DEF TakeUncached, Nothing, ChooseFree, Flushed, Budget, Drain, ReturnSlots, Moves, progVars
<1>7. CASE Sweep \/ TrySweep \/ Mask \/ LockAll \/ Recycle \/ Unmask \/ Unsweep
  BY <1>7 DEF Sweep, TrySweep, Mask, LockAll, Recycle, Unmask, Unsweep, Moves, progVars
<1> QED BY <1>1, <1>2, <1>3, <1>4, <1>5, <1>6, <1>7 DEF NestingNext

LEMMA NestingInvariant ==
  ASSUME OneAtATime
  PROVE  NestingSpec => [](torn \/ NestInv)
<1>1. NestingInit => NestInv
  BY NestingStart
<1>2. (torn \/ NestInv) /\ [NestingNext]_nestingVars => (torn \/ NestInv)'
  BY NestingStep, NestingStutter, TornStays
<1> QED BY <1>1, <1>2, PTL DEF NestingSpec

\* A single handler cannot come inside an update of deferred: before it, no
\* release waits.
LEMMA OneIsNotTorn ==
  ASSUME OneAtATime, MaxSignals <= 1
  PROVE  NestingSpec => [](~torn /\ NestInv)
<1>1. NestingInit => ~torn /\ NestInv
  BY NestingStart DEF NestingInit
<1>2. ASSUME ~torn, NestInv, [NestingNext]_nestingVars PROVE ~torn'
  <2>1. CASE Signal
    <3>1. signals = 0 /\ stack # <<>>
      <4>1. signals \in 0 .. MaxSignals /\ signals < MaxSignals /\ stack # <<>>
        BY <1>2, <2>1 DEF Signal, NestInv, NestingTypeOK
      <4> QED BY <4>1, NestingAssumption
    <3>2. ~Handled /\ T.at \notin {"decrement", "read"} /\ Counts /\ StackShape
      BY <1>2, <3>1 DEF NestInv, Counts
    <3>3. T.at # "defer"
      BY <1>2, <3>2, InterruptedAt DEF Counts
    <3>4. ~Updating
      BY <3>1, <3>2, <3>3, StackTop DEF Updating
    <3> QED BY <1>2, <2>1, <3>4 DEF Signal
  <2>2. CASE UNCHANGED nestingVars
    BY <1>2, <2>2 DEF nestingVars, progVars
  <2>3. CASE Call \/ HandlerCall \/ HandlerReturn \/ Exit
    BY <1>2, <2>3 DEF Call, HandlerCall, HandlerReturn, Exit, Moves, progVars
  <2>4. CASE Enter \/ RefuseAlloc \/ DeferFree \/ Defer \/ Leave \/ TestDeferred \/ Decrement \/ FreeDeferred
    BY <1>2, <2>4 DEF Enter, RefuseAlloc, DeferFree, Defer, Leave, TestDeferred, Decrement, FreeDeferred,
       Moves, progVars
  <2>5. CASE Take \/ Lock \/ Work \/ Give
    BY <1>2, <2>5 DEF Take, Lock, Work, Give, progVars
  <2>6. CASE Claim \/ FindCache \/ MakeCache \/ ChooseAlloc \/ PopClass \/ TakeCached \/ Refilled
    BY <1>2, <2>6 DEF Claim, FindCache, MakeCache, ChooseAlloc, PopClass, TakeCached, Refilled, Moves,
       progVars
  <2>7. CASE TakeUncached \/ Nothing \/ ChooseFree \/ Flushed \/ Budget \/ Drain \/ ReturnSlots
    BY <1>2, <2>7 DEF TakeUncached, Nothing, ChooseFree, Flushed, Budget, Drain, ReturnSlots, Moves,
       progVars
  <2>8. CASE Sweep \/ TrySweep \/ Mask \/ LockAll \/ Recycle \/ Unmask \/ Unsweep
    BY <1>2, <2>8 DEF Sweep, TrySweep, Mask, LockAll, Recycle, Unmask, Unsweep, Moves, progVars
  <2> QED BY <1>2, <2>1, <2>2, <2>3, <2>4, <2>5, <2>6, <2>7, <2>8 DEF NestingNext
<1>3. ~torn /\ NestInv /\ [NestingNext]_nestingVars => (~torn /\ NestInv)'
  BY <1>2, NestingStep, NestingStutter
<1> QED BY <1>1, <1>3, PTL DEF NestingSpec

LEMMA LocksFree ==
  ASSUME NestInv
  PROVE  NoSelfDeadlock
<1> SUFFICES ASSUME NEW p \in {"lock", "lockall"}, Running({p}) PROVE locked = {}
  BY DEF NoSelfDeadlock
<1>1. T.at = p
  BY RunningTop
<1>2. Holds(U) = {}
  BY <1>1, Below
<1>3. Holds(T) = {}
  BY <1>1 DEF Holds
<1> QED BY <1>2, <1>3 DEF NestInv, LocksHeld

(* A call never waits for a lock that a call below it in the thread holds: *)
(* a handler's allocation fails and its release waits while the call it    *)
(* interrupted counts a lock (ThreadCache.locks), and the sweep, which     *)
(* takes every lock, blocks signals first.  So it is for any number of     *)
(* handlers until one runs inside an update of deferred, and always when a *)
(* call is interrupted once.                                               *)
THEOREM LocksNeverAwaited ==
  ASSUME OneAtATime
  PROVE  /\ NestingSpec => [](torn \/ NoSelfDeadlock)
         /\ MaxSignals <= 1 => (NestingSpec => []NoSelfDeadlock)
<1>1. NestInv => NoSelfDeadlock
  BY LocksFree
<1>2. NestingSpec => [](torn \/ NoSelfDeadlock)
  BY <1>1, NestingInvariant, PTL
<1>3. ASSUME MaxSignals <= 1 PROVE NestingSpec => []NoSelfDeadlock
  <2>1. NestingSpec => [](~torn /\ NestInv)
    BY <1>3, OneIsNotTorn
  <2> QED BY <1>1, <2>1, PTL
<1> QED BY <1>2, <1>3

(* The program releases every block once, so claim finds every block of a  *)
(* release live: a release that waited in deferred is made once, however   *)
(* many handlers run meanwhile, in the loop that makes those releases too, *)
(* until one runs between two steps of an update of deferred.              *)
THEOREM ReleasesMadeOnce ==
  ASSUME OneAtATime
  PROVE  NestingSpec => []ReleasedUnlessTorn
<1>1. torn \/ NestInv => ReleasedUnlessTorn
  BY DEF NestInv, ReleasedUnlessTorn
<1> QED BY <1>1, NestingInvariant, PTL

(* Outside the allocator the counts are zero, no lock is held, no release  *)
(* waits, and every slot is in one place: no slot is lost or handed out    *)
(* twice by a call that a handler interrupted.                             *)
THEOREM RestRestored ==
  ASSUME OneAtATime
  PROVE  NestingSpec => []AtRest
<1>1. torn \/ NestInv => AtRest
  <2> SUFFICES ASSUME NestInv, stack = <<>>
               PROVE  /\ depth = 0 /\ locks = 0 /\ count = 0
                      /\ locked = {} /\ ~sweeping /\ ~masked
                      /\ \A s \in Slots :
                            Cardinality({i \in 1 .. 6 :
                                s \in <<held, left, free, queued, avail, rel>>[i]}) = 1
    BY DEF AtRest
  <2>1. /\ T = Rest /\ U = Rest /\ Inert(T) /\ Inert(U)
        /\ depth = 0 /\ locks = 0 /\ count = 0
        /\ locked = {} /\ ~sweeping /\ ~masked
    BY Outermost
  <2>2. Available = avail /\ Unflushed = rel /\ Entries = {}
    <3>1. 0 .. count - 1 = {}
      BY <2>1
    <3> QED BY <2>1, <3>1 DEF Available, Unflushed, Entries, Inert
  <2>3. ASSUME NEW s \in Slots
        PROVE  Cardinality({i \in 1 .. 6 : s \in <<held, left, free, queued, avail, rel>>[i]}) = 1
    <3> DEFINE P(i) == s \in <<held, left, free, queued, avail, rel>>[i]
               A == {i \in 1 .. 6 : P(i)}
    <3>1. One(s \in held, s \in left, s \in free, s \in queued, s \in Available,
              s \in Unflushed, s \in Entries, Has(U, s), Has(T, s))
      BY DEF NestInv, SlotsOnce
    <3>2. ~Has(U, s) /\ ~Has(T, s) /\ s \notin Entries
      BY <2>1, <2>2 DEF Inert
    <3>3. /\ P(1) <=> s \in held
          /\ P(2) <=> s \in left
          /\ P(3) <=> s \in free
          /\ P(4) <=> s \in queued
          /\ P(5) <=> s \in Available
          /\ P(6) <=> s \in Unflushed
      BY <2>2
    <3> HIDE DEF P
    <3>4. \E k \in 1 .. 6 : P(k) /\ \A i \in 1 .. 6 : P(i) => i = k
      <4>1. P(1) \/ P(2) \/ P(3) \/ P(4) \/ P(5) \/ P(6)
        BY <3>1, <3>2, <3>3 DEF One
      <4>2. /\ P(1) => ~P(2) /\ ~P(3) /\ ~P(4) /\ ~P(5) /\ ~P(6)
            /\ P(2) => ~P(3) /\ ~P(4) /\ ~P(5) /\ ~P(6)
            /\ P(3) => ~P(4) /\ ~P(5) /\ ~P(6)
            /\ P(4) => ~P(5) /\ ~P(6)
            /\ P(5) => ~P(6)
        BY <3>1, <3>3 DEF One
      <4>3. \A i \in 1 .. 6 : i = 1 \/ i = 2 \/ i = 3 \/ i = 4 \/ i = 5 \/ i = 6
        OBVIOUS
      <4> QED BY <4>1, <4>2, <4>3
    <3>5. PICK k \in 1 .. 6 : A = {k}
      BY <3>4
    <3> QED BY <3>5, FS_Singleton DEF P
  <2> QED BY <2>1, <2>3
<1> QED BY <1>1, NestingInvariant, PTL

=============================================================================
