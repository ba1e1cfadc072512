---------------------------- MODULE MCActivator -----------------------------
(* Instances of Activator for TLC. *)
EXTENDS Activator

CONSTANTS p1, p2, b1, b2, b3

\* One package fits three boards, the other one of them.
Objects == {[pkg |-> p1, mcu |-> b] : b \in {b1, b2, b3}} \cup {[pkg |-> p2, mcu |-> b3]}
=============================================================================
