---------------------------- MODULE MCForkCaches ----------------------------
(* A small instance of ForkCaches. *)
EXTENDS ForkCaches

CONSTANTS s1, s2, s3, r1, r2

(* A region of two slots and one of one. *)
TwoAndOne == [s \in {s1, s2, s3} |-> IF s = s3 THEN r2 ELSE r1]
=============================================================================
