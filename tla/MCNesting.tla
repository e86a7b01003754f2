----------------------------- MODULE MCNesting ------------------------------
(* Small instances of Nesting. *)
EXTENDS Nesting, TLC

SlotSymmetry == Permutations(Slots)
=============================================================================
