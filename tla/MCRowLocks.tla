----------------------------- MODULE MCRowLocks -----------------------------
(* Small instances of RowLocks for TLC. *)
EXTENDS RowLocks, TLC

CONSTANTS t1, t2, t3

\* Two orders of one user and one of another, the last two of one battery.
Owner == <<1, 1, 2>>
Rented == <<1, 2, 2>>

TransactionSymmetry == Permutations(Transactions)
=============================================================================
