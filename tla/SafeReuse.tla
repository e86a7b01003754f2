----------------------------- MODULE SafeReuse ------------------------------
(***************************************************************************)
(* What the heap promises its program (guarantees (R) and (T) of            *)
(* docs/pages/reference/guarantees.md), with nothing of how: a block is     *)
(* vacant, live or released; a released block becomes vacant, to be         *)
(* allocated again, only while no memory the program can read points to it; *)
(* and a release of anything but a live block ends the program.             *)
(***************************************************************************)
CONSTANTS
    Threads,   \* the program's threads
    Blocks,    \* the heap blocks
    Data       \* the program's mappings outside the heap and the stacks

VARIABLES
    state,     \* of each block
    held,      \* the blocks that a holder's memory points to
    ended      \* a release of no live block stopped the program

svars == <<state, held, ended>>

Memory == Threads \cup Blocks \cup Data

Pointed(b) == \E h \in Memory : b \in held[h]

Start ==
    /\ state = [b \in Blocks |-> "vacant"]
    /\ held = [h \in Memory |-> {}]
    /\ ended = FALSE

(* A thread gets a vacant block, with no pointer in it. *)
Allocate(t, b) ==
    /\ ~ended
    /\ state[b] = "vacant"
    /\ state' = [state EXCEPT ![b] = "live"]
    /\ held' = [held EXCEPT ![t] = @ \cup {b}]
    /\ UNCHANGED ended

(* A live block is released: what it points to is out of reach from here. *)
Release(t, b) ==
    /\ ~ended
    /\ b \in held[t]
    /\ state[b] = "live"
    /\ state' = [state EXCEPT ![b] = "released"]
    /\ held' = [held EXCEPT ![b] = {}]
    /\ UNCHANGED ended

(* A release of a block that is not live. *)
BadRelease(t, b) ==
    /\ ~ended
    /\ b \in held[t]
    /\ state[b] # "live"
    /\ ended' = TRUE
    /\ UNCHANGED <<state, held>>

(* The program's own memory, the data and the live blocks it points to. *)
Usable(t) == {t} \cup Data \cup {b \in held[t] : state[b] = "live"}

CopyPointer(t, from, to, b) ==
    /\ ~ended
    /\ {from, to} \subseteq Usable(t)
    /\ b \in held[from]
    /\ held' = [held EXCEPT ![to] = @ \cup {b}]
    /\ UNCHANGED <<state, ended>>

ErasePointer(t, from, b) ==
    /\ ~ended
    /\ from \in Usable(t)
    /\ held' = [held EXCEPT ![from] = @ \ {b}]
    /\ UNCHANGED <<state, ended>>

(* Released blocks that nothing points to become vacant. *)
Reuse(B) ==
    /\ ~ended
    /\ \A b \in B : state[b] = "released" /\ ~Pointed(b)
    /\ state' = [b \in Blocks |-> IF b \in B THEN "vacant" ELSE state[b]]
    /\ UNCHANGED <<held, ended>>

Step ==
    \/ \E t \in Threads, b \in Blocks :
        \/ Allocate(t, b)
        \/ Release(t, b)
        \/ BadRelease(t, b)
        \/ \E from \in Memory :
            \/ ErasePointer(t, from, b)
            \/ \E to \in Memory : CopyPointer(t, from, to, b)
    \/ \E B \in SUBSET Blocks : Reuse(B)

Safe == Start /\ [][Step]_svars

=============================================================================
