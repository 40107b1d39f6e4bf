----------------------------- MODULE BillingFee -----------------------------
(***************************************************************************)
(* utils.CalcFee, and the bill of a rental as time passes and operators    *)
(* change the billing rule: the order keeps the id of its rule, so what it *)
(* costs is decided by the rule as it is when the rental is settled.       *)
(*                                                                         *)
(* Money is in cents, time in seconds.  A rule whose unit_min is 0 makes   *)
(* CalcFee divide by zero; such rules are left out.                        *)
(***************************************************************************)
EXTENDS Integers

CONSTANTS
    Rules,          \* the billing_rules operators may set
    Step,           \* seconds between two looks at the bill
    MaxSeconds      \* bound: the length of a rental

RuleRow == [free: Nat, first: Nat, firstPrice: Nat, unit: Nat \ {0},
            unitPrice: Nat, dailyCap: Nat, maxDays: Nat, maxFee: Nat]

ASSUME BillingAssumption ==
    /\ Rules \subseteq RuleRow
    /\ Step \in Nat \ {0}
    /\ MaxSeconds \in Nat

VARIABLES rule, seconds

vars == <<rule, seconds>>

-----------------------------------------------------------------------------
(* CalcFee *)

DayMin == 24 * 60

\* Minutes begun, less the free ones.
Billed(sec, r) ==
    LET total == (sec + 59) \div 60
    IN  IF total <= r.free THEN 0 ELSE total - r.free

\* Mutant of DaysOf: a day begun counts as a whole one.
DaysOfBegun(sec, r) ==
    IF r.maxDays > 0 /\ r.dailyCap > 0
    THEN (Billed(sec, r) + DayMin - 1) \div DayMin
    ELSE 0

\* The whole days, which cost dailyCap each; none without a daily cap.
DaysOf(sec, r) ==
    LET whole == Billed(sec, r) \div DayMin
    IN  IF r.maxDays = 0 \/ r.dailyCap = 0 THEN 0
        ELSE IF whole > r.maxDays THEN r.maxDays ELSE whole

Rest(sec, r) == Billed(sec, r) - DaysOf(sec, r) * DayMin

\* Mutant of PeriodFee: the units replace the first price.
PeriodFeeUnitsOnly(rest, r) ==
    IF rest = 0 THEN 0
    ELSE IF rest <= r.first THEN r.firstPrice
    ELSE ((rest - r.first + r.unit - 1) \div r.unit) * r.unitPrice

\* The minutes beyond the whole days: a first price, then units begun.
PeriodFee(rest, r) ==
    IF rest = 0 THEN 0
    ELSE IF rest <= r.first THEN r.firstPrice
    ELSE r.firstPrice + ((rest - r.first + r.unit - 1) \div r.unit) * r.unitPrice

RestFee(sec, r) == PeriodFee(Rest(sec, r), r)

Uncapped(sec, r) == DaysOf(sec, r) * r.dailyCap + RestFee(sec, r)

\* Mutants of OverTotal: only whole days are compared; the bound itself counts.
OverTotalByDays(sec, r) == r.maxFee > 0 /\ DaysOf(sec, r) * r.dailyCap > r.maxFee
OverTotalOrAt(sec, r) == r.maxFee > 0 /\ Uncapped(sec, r) >= r.maxFee

OverTotal(sec, r) == r.maxFee > 0 /\ Uncapped(sec, r) > r.maxFee

\* Mutant of OverDay: the cap of the rest is applied after the first day.
OverDayLater(sec, r) ==
    /\ r.dailyCap > 0 /\ DaysOf(sec, r) > 0
    /\ RestFee(sec, r) > r.dailyCap

\* The daily cap is applied to the rest on the first day only.
OverDay(sec, r) ==
    /\ r.dailyCap > 0 /\ DaysOf(sec, r) = 0
    /\ RestFee(sec, r) > r.dailyCap

\* The daily cap is applied last, over the total one.
CalcFee(sec, r) ==
    IF OverDay(sec, r) THEN r.dailyCap
    ELSE IF OverTotal(sec, r) THEN r.maxFee
    ELSE Uncapped(sec, r)

CapHit(sec, r) == OverTotal(sec, r) \/ OverDay(sec, r)

-----------------------------------------------------------------------------
(* A rental *)

Init == rule \in Rules /\ seconds = 0

Pass ==
    /\ seconds + Step <= MaxSeconds
    /\ seconds' = seconds + Step
    /\ UNCHANGED rule

\* CreateRule and UpdateRule take any values.
UpdateRule(r) == rule' = r /\ UNCHANGED seconds

Next == Pass \/ \E r \in Rules : UpdateRule(r)

Spec == Init /\ [][Next]_vars

-----------------------------------------------------------------------------
(* Properties *)

TypeOK ==
    /\ rule \in Rules
    /\ seconds \in Nat
    /\ Rest(seconds, rule) \in Nat
    /\ CalcFee(seconds, rule) \in Nat

\* A rental never costs more than the larger of the two caps.
BillIsCapped ==
    rule.maxFee > 0 =>
        \/ CalcFee(seconds, rule) <= rule.maxFee
        \/ CalcFee(seconds, rule) <= rule.dailyCap

\* Until a whole day is billed, it never costs more than the daily cap.
FirstDayIsCapped ==
    rule.dailyCap > 0 /\ DaysOf(seconds, rule) = 0 =>
        CalcFee(seconds, rule) <= rule.dailyCap

\* fee_cap_hit is reported exactly when the bill is less than it would be
\* without the caps.
CapHitMeansCut ==
    CapHit(seconds, rule) <=> CalcFee(seconds, rule) < Uncapped(seconds, rule)

\* Under one rule and within one day, a longer rental never costs less.
BillGrowsWithinDay ==
    [][rule' = rule /\ DaysOf(seconds', rule) = DaysOf(seconds, rule)
          => CalcFee(seconds', rule) >= CalcFee(seconds, rule)]_vars

-----------------------------------------------------------------------------
(* A claim of the README's description of CalcFee *)

\* Step 9: the part of a day costs at most the daily cap, so that a rental
\* costs at most the daily cap for each day begun.
EveryDayIsCapped ==
    rule.dailyCap > 0 /\ DaysOf(seconds, rule) < rule.maxDays =>
        CalcFee(seconds, rule) <= (DaysOf(seconds, rule) + 1) * rule.dailyCap
=============================================================================
