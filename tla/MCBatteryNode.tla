--------------------------- MODULE MCBatteryNode ---------------------------
(* The battery node with a clock of a few steps, so that millis() wraps. *)
EXTENDS BatteryNode
=============================================================================
