---------------------------- MODULE InlineChecks ----------------------------
(***************************************************************************)
(* The checks GuardExpand writes into a program (lib/Frontend/             *)
(* GuardPass.cpp): emitGuard's form for an access within one granule, for  *)
(* one of at most a granule's size, and for one a word of shadow covers,   *)
(* emitRange for a length known at run time, and the calls they make when  *)
(* the shadow does not say at once that the access is good.                *)
(*                                                                         *)
(* A granule has CheckGranule bytes (16), a word of shadow Chunk (8).      *)
(* Init is an access and the shadow it meets; the one step runs its check. *)
(***************************************************************************)
EXTENDS Integers, Sequences, FiniteSets, FiniteSetsExt

CONSTANTS CheckGranule, Chunk,
          Values,   \* shadow values: [kind, class, color, bytes]
          Lengths,  \* the bytes of an access
          Roots     \* the shadow a root may have, {} of it for no root

VARIABLES shadowBytes, access, verdict

inlineVars == <<shadowBytes, access, verdict>>

\* A value of the shadow: a whole granule has its object's color, a partial
\* one the color's class and how many of its bytes are the object's.
IsWhole(v) == v.kind = "whole"
IsPoisoned(v) == v.kind = "poison"
GoodBytes(v) == CASE v.kind = "whole" -> CheckGranule
                  [] v.kind = "partial" -> v.bytes
                  [] v.kind = "poison" -> 0

ShadowAt(i) == shadowBytes[i + 1]   \* granule i, counted from the access's first
LastOffset == access.offset + access.width - 1
LastGranule == LastOffset \div CheckGranule

-----------------------------------------------------------------------------
(* What the runtime's slow paths decide, and what the accesses need.       *)
(***************************************************************************)
ByteGood(k) == k % CheckGranule < GoodBytes(ShadowAt(k \div CheckGranule))
AllGood(low, high) == \A k \in low..(high - 1) : ByteGood(k)

\* A member of a merged guard: its bytes, counted from the hull's first.
MemberGood(m) == AllGood(access.offset + m[1], access.offset + m[2])
AccessGood == IF access.members = {}
              THEN AllGood(access.offset, access.offset + access.width)
              ELSE \A m \in access.members : MemberGood(m)

\* jumpSlow: two whole granules have one color, and others its class; the
\* runtime accepts others it can explain (Shadow's JumpOk), here any.
ColorAgrees(v, root) ==
  /\ ~IsPoisoned(v) /\ ~IsPoisoned(root)
  /\ IsWhole(v) /\ IsWhole(root) => v = root
  /\ v.class = root.class

Root == access.root
HasRoot == Root # {}
RootValue == CHOOSE r \in Root : TRUE
AccessColored == HasRoot => ColorAgrees(ShadowAt(0), RootValue) \/ access.jumpOk

-----------------------------------------------------------------------------
(* The forms.  Each says what happens without a call ("pass") and what is  *)
(* called: the exact guard, the exact guard and color, or the null report. *)
(***************************************************************************)
IsPowerOf2(n) == \E k \in 0..n : n = 2 ^ k
OneGranule == /\ access.width <= CheckGranule /\ IsPowerOf2(access.width)
              /\ access.offset % access.width = 0 /\ access.aligned
MaxInline == CheckGranule * Chunk - (CheckGranule - 1)

\* A partial granule has some bytes and not all, a poisoned one is of no
\* color's class, and a granule's access is short enough to be inline.
ASSUME InlineAssumption ==
  /\ CheckGranule \in Nat \ {0} /\ Chunk \in Nat /\ CheckGranule <= MaxInline
  /\ \A w \in 1..CheckGranule : IsPowerOf2(w) => CheckGranule % w = 0
  /\ Lengths \subseteq Nat
  /\ \A v \in Values \cup UNION Roots :
       /\ v.kind \in {"whole", "partial", "poison"}
       /\ v.kind = "partial" => v.bytes \in 1..(CheckGranule - 1)
  /\ \A v, r \in Values \cup UNION Roots :
       IsPoisoned(v) /\ ~IsPoisoned(r) => v.class # r.class

\* A granule that ends the access: it does not hold the access's last byte.
EndsPast(v) ==
  ~IsWhole(v) /\ (IsPoisoned(v) \/ LastOffset % CheckGranule >= GoodBytes(v))

\* One granule.  With a root its byte is compared with the root's, which is
\* widened so that only the color of a whole granule can be equal.  The null
\* test waits for the slow path when the base is the root: null's shadow is
\* poison, which that comparison sends there.
Single ==
  LET v == ShadowAt(0)
      slowish == IF HasRoot THEN ~(IsWhole(RootValue) /\ v = RootValue)
                 ELSE ~IsWhole(v)
      differs == \/ IsWhole(v) /\ IsWhole(RootValue) /\ v # RootValue
                 \/ v.class # RootValue.class
      nullInCheck == HasRoot /\ access.baseIsRoot
  IN CASE ~(slowish \/ (access.null /\ ~nullInCheck)) -> "pass"
       [] OTHER ->
          IF access.null THEN "null"
          ELSE IF HasRoot THEN IF EndsPast(v) \/ differs THEN "jump" ELSE "pass"
          ELSE IF EndsPast(v) THEN "guard" ELSE "pass"

\* Mutant: the first granule may be partial when the access leaves it.
PairLast ==
  LET first == ShadowAt(0)
      last == ShadowAt(LastGranule)
  IN IF IsWhole(first) /\ IsWhole(ShadowAt(1)) /\ ~access.null THEN "pass"
     ELSE IF access.null THEN "null"
     ELSE IF EndsPast(last) THEN "guard" ELSE "pass"

\* Two granules: the fast path loads the first byte's and the one after.
PairCheck ==
  LET first == ShadowAt(0)
      last == ShadowAt(LastGranule)
  IN IF IsWhole(first) /\ IsWhole(ShadowAt(1)) /\ ~access.null THEN "pass"
     ELSE IF access.null THEN "null"
     ELSE IF (LastGranule # 0 /\ ~IsWhole(first)) \/ EndsPast(last)
          THEN "guard" ELSE "pass"

\* A word: every granule but the last must be whole.  The fast path of a
\* constant width tests every granule it could reach.
Reach == (CheckGranule - 1 + access.width + CheckGranule - 1) \div CheckGranule
Word(fast) ==
  IF fast /\ (\A i \in 0..(Reach - 1) : IsWhole(ShadowAt(i))) /\ ~access.null
  THEN "pass"
  ELSE IF access.null THEN "null"
  ELSE IF (\E i \in 0..(LastGranule - 1) : ~IsWhole(ShadowAt(i))) \/ EndsPast(ShadowAt(LastGranule))
       THEN "guard" ELSE "pass"

\* colorCheck, before the forms that do not compare the color themselves.
ColorCheck == IF HasRoot /\ ShadowAt(0) # RootValue THEN "jump" ELSE "pass"

Form ==
  IF access.width = 0 THEN "pass"
  ELSE IF access.width > MaxInline THEN "guard"
  ELSE IF access.runtime THEN Word(FALSE)
  ELSE IF OneGranule THEN Single
  ELSE IF access.width <= CheckGranule THEN PairCheck
  ELSE Word(TRUE)

\* slowGuard: the exact guard of each member, or of the access.
SlowGuard == IF AccessGood THEN "pass" ELSE "report"

\* What the form decides, in its slow path where it has one; of guardJump's
\* accesses the guard is exact first.
FormOutcome ==
  IF Form = "pass" THEN "pass"
  ELSE IF Form = "null" THEN "report"
  ELSE IF Form = "guard" \/ SlowGuard = "report" THEN SlowGuard
  ELSE IF AccessColored THEN "pass" ELSE "report"

\* jumpSlow: before the form, a color that does not agree is reported.
Outcome ==
  LET colored == IF OneGranule \/ access.width = 0 THEN "pass" ELSE ColorCheck
  IN IF colored = "jump" /\ ~AccessColored THEN "report" ELSE FormOutcome

-----------------------------------------------------------------------------
(* An access.  A length at run time has neither members nor a base to test *)
(* for null.  A merged guard has members at both ends of its hull, which    *)
(* is one whose check is inline and has no alignment of its own.            *)
(***************************************************************************)
MemberSets(width) ==
  {{}} \cup (IF width < 2 THEN {} ELSE {{<<0, 1>>, <<width - 1, width>>}})

InlineInit ==
  /\ shadowBytes \in [1..(Chunk + 1) -> Values]
  /\ access \in [offset : 0..(CheckGranule - 1), width : Lengths, null : BOOLEAN,
                 baseIsRoot : BOOLEAN, aligned : BOOLEAN, runtime : BOOLEAN,
                 root : Roots, jumpOk : BOOLEAN,
                 members : UNION {MemberSets(w) : w \in Lengths}]
  /\ access.members \in MemberSets(access.width)
  /\ access.members # {} => access.width <= MaxInline /\ ~access.aligned
  /\ access.runtime => access.members = {} /\ ~access.aligned /\ ~access.null
  /\ access.jumpOk => access.root # {}
  /\ access.aligned => access.width > 0 /\ access.offset % access.width = 0
  /\ access.baseIsRoot =>
       /\ access.null /\ access.root # {}
       /\ \A r \in access.root : IsPoisoned(r)
  /\ verdict = "none"

InlineCheck ==
  /\ verdict = "none"
  /\ verdict' = Outcome
  /\ UNCHANGED <<shadowBytes, access>>

InlineNext == InlineCheck

InlineSpec == InlineInit /\ [][InlineNext]_inlineVars

-----------------------------------------------------------------------------
(* Properties.                                                             *)
(***************************************************************************)
\* A check longer than what is inline never tests its base for null.
Bad ==
  /\ access.width > 0
  /\ \/ access.null /\ access.width <= MaxInline
     \/ ~AccessGood
     \/ ~AccessColored

\* No form lets an access of a byte that is not addressable, of another
\* object than its root's, or (unless it is longer than what is inline)
\* through a null base, pass without a report; and none reports an access
\* that is good, though the bytes it looks at reach past the access, or lie
\* between the members of a merged guard (emitGuard, chunkCheck, slowGuard).
InlineExact == verdict # "none" => (verdict = "report" <=> Bad)
=============================================================================
