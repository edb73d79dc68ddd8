------------------------------- MODULE Rules -------------------------------
(***************************************************************************)
(* The conditions of the scheduler's rules (internal/scheduler, Tick), as  *)
(* operators of the net power, a battery's state of charge and a policy    *)
(* [min, max, shed].  Net power is load - PV - battery, a battery counting *)
(* positive when it discharges.                                            *)
(***************************************************************************)
EXTENDS Integers

CONSTANT Deadband  \* 10 W

ASSUME DeadbandAssumption == Deadband \in Nat

\* Mutant: a surplus counts from the first watt.
SurplusAny(n) == n < 0

\* Net power below which batteries are charged.
Surplus(n) == n < -Deadband

\* Net power above which batteries are discharged.
Deficit(n) == n > Deadband

HasRoom(charge, p) == charge < p.max
HasCharge(charge, p) == charge > p.min

\* Net power above which a load is switched off.
Overload(n, p) == n > p.shed
=============================================================================
