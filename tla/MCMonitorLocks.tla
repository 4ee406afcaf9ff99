--------------------------- MODULE MCMonitorLocks ---------------------------
(* Two hardware harts that contend for one VM of two confidential harts.    *)
EXTENDS MonitorLocks, TLC

\* The monitor treats the hardware harts alike.
HardwareHartSymmetry == Permutations(HardwareHarts)
=============================================================================
