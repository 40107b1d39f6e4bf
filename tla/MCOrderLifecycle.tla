-------------------------- MODULE MCOrderLifecycle --------------------------
(* Small instances of OrderLifecycle for TLC. *)
EXTENDS LifecycleClaims, TLC

CONSTANTS u1, u2, b1, b2, c1, c2

\* Two slots in two cabinets, the first one stocked; or both stocked.
TwoCabinets == (1 :> c1) @@ (2 :> c2)
OneCabinet == (1 :> c1) @@ (2 :> c1)
OneSlot == (1 :> c1)
FirstStocked == (1 :> b1) @@ (2 :> NoBattery)
BothStocked == (1 :> b1) @@ (2 :> b2)
OnlyStocked == (1 :> b1)

\* The users of an instance where they are alike.
UserSymmetry == Permutations({u1, u2})
=============================================================================
