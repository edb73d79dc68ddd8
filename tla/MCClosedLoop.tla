---------------------------- MODULE MCClosedLoop ----------------------------
(* A small instance of ClosedLoop. *)
EXTENDS ClosedLoop

CONSTANT l1

OneLoad == <<l1>>
Power == [l \in {l1} |-> 45]

\* With the load a deficit of 25 W, or of 5 W, where the rules just do not swing; without
\* it a surplus.
Curve == {20, 40}

\* The battery may not discharge at the warning threshold, nor charge at the one of
\* recovery; a load is shed in the deficit of a charging battery.
Limits == [min |-> 2, max |-> 3, shed |-> 20]
=============================================================================
