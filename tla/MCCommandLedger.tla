-------------------------- MODULE MCCommandLedger --------------------------
(* Small instances of CommandLedger. *)
EXTENDS CommandLedger

CONSTANTS c1, c2, l1, d1, d2

\* Two commands for one device and one the edge gateway sends to another.
TargetD == [c \in Sendable |-> IF c = l1 THEN d2 ELSE d1]

\* Two commands for two devices.
TargetTwo == [c \in Sendable |-> IF c = c1 THEN d1 ELSE d2]
=============================================================================
