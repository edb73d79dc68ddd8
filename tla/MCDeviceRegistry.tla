-------------------------- MODULE MCDeviceRegistry --------------------------
(* Small instances of DeviceRegistry for TLC. *)
EXTENDS DeviceRegistry, TLC

CONSTANTS d1, d2, d3, r1, r2, r3

\* Two seeded devices and one that only operators register.
TwoSeeds == <<d1, d2>>

RequestSymmetry == Permutations(Requests)
=============================================================================
