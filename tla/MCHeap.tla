------------------------------- MODULE MCHeap -------------------------------
(***************************************************************************)
(* Small instances of Heap for TLC.  A behaviour keeps to one layout of the *)
(* slots: "given", the constants'; or "same", one region of two slots,      *)
(* which one refill takes.                                                  *)
(***************************************************************************)
EXTENDS Heap, TLC

CONSTANTS t1, t2, s1, s2, r1, r2

VARIABLE layout

MCThreads == {t1, t2}
MCSlots == {s1, s2}
MCRegions == {r1, r2}
(* One slot in each region: the second is a spare, and a flush of both takes *)
(* two locks in turn.                                                        *)
MCRegionOf == [s \in MCSlots |-> IF s = s1 THEN r1 ELSE r2]

Same == INSTANCE Heap WITH Regions <- {r1}, RegionOf <- [s \in MCSlots |-> r1]

MCInit ==
    \/ layout = "given" /\ Init
    \/ layout = "same" /\ Same!Init

MCNext ==
    \/ layout = "given" /\ Next /\ UNCHANGED layout
    \/ layout = "same" /\ Same!Next /\ UNCHANGED layout

MCSpec == MCInit /\ [][MCNext]_<<vars, layout>>

(* The run with one slot. *)
MCOneOf == [s \in {s1} |-> r1]
MCOneInit == layout = "given" /\ Init
MCOneSpec ==
    MCOneInit /\ [][MCNext]_<<vars, layout>> /\ Fairness

MCSymmetry == Permutations(MCThreads)

=============================================================================
