-------------------------- MODULE MCSecurityMonitor --------------------------
(* Instances of SecurityMonitor for TLC. *)
EXTENDS SecurityMonitor, TLC

Symmetry == Permutations(HardwareHarts)
=============================================================================
