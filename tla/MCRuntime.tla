----------------------------- MODULE MCRuntime ------------------------------
(***************************************************************************)
(* The runtime's data on small instances: Classes, HugeBlocks, Library and  *)
(* Shadow.  Each behaviour is one of one part; the others rest in a state   *)
(* that says nothing of them (a shadow of no granules, one request).        *)
(***************************************************************************)
EXTENDS Classes, HugeBlocks, Library, Shadow

VARIABLE part

(* Regions whose last slot ends where the next region starts. *)
Adjacent == {4, 20}

(* What memory holds before a library call: any text without a sign or a    *)
(* mark, and numbers with at most one of each.                              *)
Times(f, kind) == Cardinality({i \in Row : f[i] = kind})
MCTexts ==
    {f \in [Row -> {Zero, Digit, Blank}] : f[Cells - 1] = Zero}
    \cup {f \in [Row -> {Zero, Digit, Sign, Mark}] :
             /\ f[Cells - 1] = Zero
             /\ \A i \in Row \ {0} : f[i - 1] = Zero => f[i] = Zero
             /\ Times(f, Mark) = 1 /\ Times(f, Sign) <= 1}

MCValuesGiven == {-1, 2}

ClassIdle == request = [size |-> 1, align |-> 0, count |-> 0]

LibIdle ==
    /\ usable = Row /\ did = Nothing /\ format = <<>>
    /\ cell = [i \in Row |-> Zero]
    /\ values = [i \in Arguments |-> 0]

ShadowIdle ==
    /\ shadow = <<>> /\ size = [b \in Slots |-> Never]
    /\ committed = {} /\ registered = FALSE /\ frames = <<>> /\ lost = FALSE
    /\ steps = 0 /\ allowed = {} /\ denied = {} /\ pooled = {} /\ spoiled = {}

Init ==
    /\ part \in {"classes", "huge", "library", "shadow"}
    /\ IF part = "classes" THEN ClassInit ELSE ClassIdle
    /\ HugeInit
    /\ IF part = "library" THEN LibInit ELSE LibIdle
    /\ IF part = "shadow" THEN ShadowInit ELSE ShadowIdle

Next ==
    \/ /\ part = "classes" /\ ClassNext
       /\ UNCHANGED <<part, hugeVars, libVars, shadowVars>>
    \/ /\ part = "huge" /\ HugeNext
       /\ UNCHANGED <<part, request, libVars, shadowVars>>
    \/ /\ part = "library" /\ (LibCall \/ LibFormat)
       /\ UNCHANGED <<part, request, hugeVars, shadowVars>>
    \/ /\ part = "shadow" /\ ShadowNext
       /\ UNCHANGED <<part, request, hugeVars, libVars>>

Spec == Init /\ [][Next]_<<part, request, hugeVars, libVars, shadowVars>>
=============================================================================
