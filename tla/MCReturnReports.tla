-------------------------- MODULE MCReturnReports ---------------------------
(* Small instances of ReturnReports for TLC. *)
EXTENDS ReturnReports, TLC

CONSTANTS b1, h1, h2

\* One battery, in the first slot.
FirstStocked == (b1 :> 1)
=============================================================================
