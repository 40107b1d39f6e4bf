---------------------------- MODULE MCBillingFee ----------------------------
(* Billing rules for TLC. *)
EXTENDS BillingFee

\* The rule database.Seed creates.
Seeded == [free |-> 5, first |-> 30, firstPrice |-> 200, unit |-> 30,
           unitPrice |-> 100, dailyCap |-> 3000, maxDays |-> 30, maxFee |-> 29900]

\* One with the default max_fee of 0; one capped below its daily cap, so that
\* both caps meet on the first day; one that stops counting days after one;
\* and one whose total cap is met exactly.
Unlimited == [Seeded EXCEPT !.free = 0, !.maxFee = 0, !.dailyCap = 0]
LowTotal == [Seeded EXCEPT !.maxFee = 2000]
OneDay == [Seeded EXCEPT !.maxDays = 1, !.maxFee = 7000]
Exact == [Seeded EXCEPT !.unit = 60, !.dailyCap = 1500, !.maxFee = 3200]

AllRules == {Seeded, Unlimited, LowTotal, OneDay, Exact}
OnlySeeded == {Seeded}
=============================================================================
