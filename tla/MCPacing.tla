------------------------------ MODULE MCPacing ------------------------------
(* A small instance of Pacing for TLC. *)
EXTENDS Pacing, TLC

CONSTANTS t1, t2

MCThreads == {t1, t2}
MCSymmetry == Permutations(MCThreads)

=============================================================================
