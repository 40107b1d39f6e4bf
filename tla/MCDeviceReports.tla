-------------------------- MODULE MCDeviceReports --------------------------
(* Small instances of DeviceReports for TLC. *)
EXTENDS DeviceReports, TLC

CONSTANTS r1, r2

RequestSymmetry == Permutations(Requests)
=============================================================================
