---------------------------- MODULE MCStopWorld -----------------------------
(* A small instance of StopWorld for TLC. *)
EXTENDS StopWorld

CONSTANTS u1, u2

MCStarters == {u1, u2}

=============================================================================
