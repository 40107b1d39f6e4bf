------------------------- MODULE MCSettlementRaces -------------------------
(* Small instances of SettlementRaces for TLC. *)
EXTENDS SettlementRaces, TLC

CONSTANTS u1, u2, b1, b2, c1, r1, r2

OneSlot == (1 :> c1)
OneStocked == (1 :> b1)
TwoSlots == (1 :> c1) @@ (2 :> c1)
TwoStocked == (1 :> b1) @@ (2 :> b2)

AllButScans == Handlers \ {"rent", "abnormal", "inventory"}

\* Handlers that share a lock, with those that lock the wallet themselves.
SameLock == {{"detect", "manual", "report", "credit", "dispute"},
             {"lost", "damage", "credit", "dispute"},
             {"decide", "credit", "dispute"},
             {"fail", "credit", "dispute"}}

\* Scans overlap scans; returns overlap returns, and inventories.
ScansOrReturns == {{"rent", "abnormal"}, {"detect", "manual", "credit"},
                   {"inventory", "detect"}}

RequestSymmetry == Permutations(Requests)
=============================================================================
