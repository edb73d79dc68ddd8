---------------------------- MODULE MCScheduler ----------------------------
(* Small instances of Scheduler. *)
EXTENDS Scheduler

CONSTANTS b1, l1

\* A surplus, balance, a deficit inside the dead band, which is below one shed
\* threshold and above the other, and one above both.
NetsFew == {-20, 0, 5, 90}

\* Policies: the configured one, and one that keeps the whole charge and sheds early.
Normal == [min |-> 0, max |-> 1, shed |-> 80]
Reserve == [min |-> 1, max |-> 1, shed |-> 0]

NormalOrReserve == {Normal, Reserve}
=============================================================================
