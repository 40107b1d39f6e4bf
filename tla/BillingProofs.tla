---------------------------- MODULE BillingProofs ----------------------------
(***************************************************************************)
(* Theorems about CalcFee, for every billing rule and every duration.      *)
(***************************************************************************)
EXTENDS BillingFee, TLAPS

-----------------------------------------------------------------------------
(* Arithmetic *)

LEMMA ProductIsNat == \A a, b \in Nat : a * b \in Nat
    OBVIOUS

LEMMA QuotientIsNat == \A a \in Nat, d \in Nat \ {0} : a \div d \in Nat
    OBVIOUS

\* Days are whole.
LEMMA DaysFit ==
    ASSUME NEW n \in Nat, NEW d \in Nat, d <= n \div DayMin
    PROVE  n - d * DayMin \in Nat
    BY DEF DayMin

-----------------------------------------------------------------------------
(* The parts of the bill *)

LEMMA BilledIsNat ==
    ASSUME NEW sec \in Nat, NEW r \in RuleRow
    PROVE  Billed(sec, r) \in Nat
    <1>1. (sec + 59) \div 60 \in Nat
        OBVIOUS
    <1> QED BY <1>1 DEF Billed, RuleRow

LEMMA DaysAreWhole ==
    ASSUME NEW sec \in Nat, NEW r \in RuleRow
    PROVE  /\ DaysOf(sec, r) \in Nat
           /\ Rest(sec, r) \in Nat
    <1> DEFINE whole == Billed(sec, r) \div DayMin
    <1>1. Billed(sec, r) \in Nat /\ whole \in Nat
        BY BilledIsNat DEF DayMin
    <1>2. DaysOf(sec, r) \in Nat /\ DaysOf(sec, r) <= whole
        BY <1>1 DEF DaysOf, RuleRow
    <1> QED BY <1>1, <1>2, DaysFit DEF Rest

LEMMA PeriodFeeIsNat ==
    ASSUME NEW rest \in Nat, NEW r \in RuleRow
    PROVE  PeriodFee(rest, r) \in Nat
    <1> DEFINE units == (rest - r.first + r.unit - 1) \div r.unit
    <1>1. /\ r.first \in Nat /\ r.firstPrice \in Nat /\ r.unitPrice \in Nat
          /\ r.unit \in Nat \ {0}
        BY DEF RuleRow
    <1>2. CASE rest <= r.first
        BY <1>1, <1>2 DEF PeriodFee
    <1>3. CASE rest > r.first
        <2>1. rest - r.first + r.unit - 1 \in Nat
            BY <1>1, <1>3
        <2>2. units \in Nat
            BY <1>1, <2>1, QuotientIsNat
        <2>3. units * r.unitPrice \in Nat
            BY <1>1, <2>2, ProductIsNat
        <2>4. PeriodFee(rest, r) = IF rest = 0 THEN 0
                                   ELSE r.firstPrice + units * r.unitPrice
            BY <1>1, <1>3 DEF PeriodFee
        <2> HIDE DEF units
        <2> QED BY <1>1, <2>3, <2>4
    <1> QED BY <1>1, <1>2, <1>3

LEMMA UncappedIsNat ==
    ASSUME NEW sec \in Nat, NEW r \in RuleRow
    PROVE  /\ RestFee(sec, r) \in Nat
           /\ DaysOf(sec, r) \in Nat
           /\ DaysOf(sec, r) * r.dailyCap \in Nat
           /\ Uncapped(sec, r) = DaysOf(sec, r) * r.dailyCap + RestFee(sec, r)
           /\ Uncapped(sec, r) \in Nat
    <1>1. RestFee(sec, r) \in Nat
        BY DaysAreWhole, PeriodFeeIsNat DEF RestFee
    <1>2. DaysOf(sec, r) \in Nat /\ DaysOf(sec, r) * r.dailyCap \in Nat
        BY DaysAreWhole, ProductIsNat DEF RuleRow
    <1> QED BY <1>1, <1>2 DEF Uncapped

\* The three outcomes of CalcFee.
LEMMA FeeCases ==
    ASSUME NEW sec \in Nat, NEW r \in RuleRow
    PROVE  \/ /\ OverDay(sec, r) /\ CalcFee(sec, r) = r.dailyCap
              /\ Uncapped(sec, r) = RestFee(sec, r) /\ r.dailyCap < RestFee(sec, r)
           \/ /\ ~OverDay(sec, r) /\ OverTotal(sec, r)
              /\ CalcFee(sec, r) = r.maxFee /\ r.maxFee < Uncapped(sec, r)
           \/ /\ ~OverDay(sec, r) /\ ~OverTotal(sec, r)
              /\ CalcFee(sec, r) = Uncapped(sec, r)
    <1>1. /\ r.dailyCap \in Nat /\ r.maxFee \in Nat
          /\ RestFee(sec, r) \in Nat /\ Uncapped(sec, r) \in Nat
        BY UncappedIsNat DEF RuleRow
    <1>2. CASE OverDay(sec, r)
        <2>1. DaysOf(sec, r) = 0 /\ r.dailyCap < RestFee(sec, r)
            BY <1>1, <1>2 DEF OverDay
        <2>2. Uncapped(sec, r) = RestFee(sec, r)
            BY <1>1, <2>1, UncappedIsNat
        <2> QED BY <1>2, <2>1, <2>2 DEF CalcFee
    <1>3. CASE ~OverDay(sec, r) /\ OverTotal(sec, r)
        BY <1>1, <1>3 DEF CalcFee, OverTotal
    <1>4. CASE ~OverDay(sec, r) /\ ~OverTotal(sec, r)
        BY <1>4 DEF CalcFee
    <1> QED BY <1>2, <1>3, <1>4

-----------------------------------------------------------------------------
(* A rental *)

\* The rule of a rental is a rule and its bill is a natural number: no
\* duration makes the minutes left beyond the whole days negative.
THEOREM BillTypeCorrect == Spec => []TypeOK
    <1> DEFINE Inv == rule \in Rules /\ seconds \in Nat
    <1>1. Init => Inv
        BY DEF Init
    <1>2. Inv /\ [Next]_vars => Inv'
        BY BillingAssumption DEF Next, Pass, UpdateRule, vars
    <1>3. Inv => TypeOK
        <2> SUFFICES ASSUME Inv PROVE TypeOK
            OBVIOUS
        <2>1. rule \in RuleRow /\ rule.maxFee \in Nat /\ rule.dailyCap \in Nat
            BY BillingAssumption DEF RuleRow
        <2>2. CalcFee(seconds, rule) \in Nat
            BY <2>1, FeeCases, UncappedIsNat
        <2> QED BY <2>1, <2>2, DaysAreWhole DEF TypeOK
    <1> QED BY <1>1, <1>2, <1>3, PTL DEF Spec

LEMMA Typed ==
    ASSUME TypeOK
    PROVE  /\ rule \in RuleRow /\ seconds \in Nat
           /\ rule.maxFee \in Nat /\ rule.dailyCap \in Nat
    BY BillingAssumption DEF TypeOK, RuleRow

\* Whatever the rule, a rental never costs more than the larger of its caps.
THEOREM BillsAreCapped == Spec => []BillIsCapped
    <1>1. TypeOK => BillIsCapped
        <2> SUFFICES ASSUME TypeOK, rule.maxFee > 0
                     PROVE  \/ CalcFee(seconds, rule) <= rule.maxFee
                            \/ CalcFee(seconds, rule) <= rule.dailyCap
            BY DEF BillIsCapped
        <2>1. Uncapped(seconds, rule) \in Nat
            BY Typed, UncappedIsNat
        <2>2. ~OverTotal(seconds, rule) => Uncapped(seconds, rule) <= rule.maxFee
            BY <2>1, Typed DEF OverTotal
        <2> QED BY <2>1, <2>2, Typed, FeeCases
    <1> QED BY <1>1, BillTypeCorrect, PTL

\* Until a whole day is billed, a rental costs at most the daily cap; this is
\* what EveryDayIsCapped claims of every day.
THEOREM FirstDaysAreCapped == Spec => []FirstDayIsCapped
    <1>1. TypeOK => FirstDayIsCapped
        <2> SUFFICES ASSUME TypeOK, rule.dailyCap > 0, DaysOf(seconds, rule) = 0
                     PROVE  CalcFee(seconds, rule) <= rule.dailyCap
            BY DEF FirstDayIsCapped
        <2>1. /\ Uncapped(seconds, rule) \in Nat /\ RestFee(seconds, rule) \in Nat
              /\ Uncapped(seconds, rule) = RestFee(seconds, rule)
            BY Typed, UncappedIsNat
        <2>2. ~OverDay(seconds, rule) => RestFee(seconds, rule) <= rule.dailyCap
            BY <2>1, Typed DEF OverDay
        <2> QED BY <2>1, <2>2, Typed, FeeCases
    <1> QED BY <1>1, BillTypeCorrect, PTL

\* The flag fee_cap_hit tells exactly whether a cap made the bill smaller.
THEOREM CapHitIsHonest == Spec => []CapHitMeansCut
    <1>1. TypeOK => CapHitMeansCut
        <2> SUFFICES ASSUME TypeOK PROVE CapHitMeansCut
            OBVIOUS
        <2>1. /\ Uncapped(seconds, rule) \in Nat /\ RestFee(seconds, rule) \in Nat
            BY Typed, UncappedIsNat
        <2> QED BY <2>1, Typed, FeeCases DEF CapHitMeansCut, CapHit
    <1> QED BY <1>1, BillTypeCorrect, PTL

-----------------------------------------------------------------------------
(* The bill grows *)

LEMMA ProductGrows ==
    ASSUME NEW a \in Nat, NEW b \in Nat, a <= b, NEW c \in Nat
    PROVE  a * c <= b * c
    OBVIOUS

LEMMA QuotientGrows ==
    ASSUME NEW a \in Nat, NEW b \in Nat, a <= b, NEW d \in Nat \ {0}
    PROVE  a \div d <= b \div d
    OBVIOUS

LEMMA BilledGrows ==
    ASSUME NEW sec \in Nat, NEW later \in Nat, sec <= later, NEW r \in RuleRow
    PROVE  Billed(sec, r) <= Billed(later, r)
    <1>1. /\ (sec + 59) \div 60 \in Nat /\ (later + 59) \div 60 \in Nat
          /\ (sec + 59) \div 60 <= (later + 59) \div 60
        OBVIOUS
    <1> QED BY <1>1 DEF Billed, RuleRow

LEMMA PeriodFeeGrows ==
    ASSUME NEW rest \in Nat, NEW more \in Nat, rest <= more, NEW r \in RuleRow
    PROVE  PeriodFee(rest, r) <= PeriodFee(more, r)
    <1> DEFINE U(n) == (n - r.first + r.unit - 1) \div r.unit
    <1>1. /\ r.first \in Nat /\ r.firstPrice \in Nat /\ r.unitPrice \in Nat
          /\ r.unit \in Nat \ {0}
        BY DEF RuleRow
    <1>2. ASSUME NEW n \in Nat, n > r.first
          PROVE  /\ U(n) * r.unitPrice \in Nat /\ U(n) \in Nat
                 /\ PeriodFee(n, r) = r.firstPrice + U(n) * r.unitPrice
        <2>1. n - r.first + r.unit - 1 \in Nat
            BY <1>1, <1>2
        <2>2. U(n) \in Nat
            BY <1>1, <2>1, QuotientIsNat
        <2>3. U(n) * r.unitPrice \in Nat
            BY <1>1, <2>2, ProductIsNat
        <2>4. n # 0 /\ ~(n <= r.first)
            BY <1>1, <1>2
        <2> QED BY <2>2, <2>3, <2>4 DEF PeriodFee
    <1>3. CASE more <= r.first
        BY <1>1, <1>3 DEF PeriodFee
    <1>4. CASE rest <= r.first /\ more > r.first
        <2>1. PeriodFee(rest, r) \in Nat /\ PeriodFee(rest, r) <= r.firstPrice
            BY <1>1, <1>4 DEF PeriodFee
        <2>2. /\ U(more) * r.unitPrice \in Nat
              /\ PeriodFee(more, r) = r.firstPrice + U(more) * r.unitPrice
            BY <1>2, <1>4
        <2> HIDE DEF U
        <2> QED BY <1>1, <2>1, <2>2
    <1>5. CASE rest > r.first
        <2>1. more > r.first
            BY <1>1, <1>5
        <2>2. /\ rest - r.first + r.unit - 1 \in Nat
              /\ more - r.first + r.unit - 1 \in Nat
              /\ rest - r.first + r.unit - 1 <= more - r.first + r.unit - 1
            BY <1>1, <1>5, <2>1
        <2>3. U(rest) <= U(more)
            BY <1>1, <2>2, QuotientGrows
        <2>4. /\ U(rest) \in Nat /\ U(more) \in Nat
              /\ U(rest) * r.unitPrice \in Nat /\ U(more) * r.unitPrice \in Nat
              /\ PeriodFee(rest, r) = r.firstPrice + U(rest) * r.unitPrice
              /\ PeriodFee(more, r) = r.firstPrice + U(more) * r.unitPrice
            BY <1>2, <1>5, <2>1
        <2> HIDE DEF U
        <2>5. U(rest) * r.unitPrice <= U(more) * r.unitPrice
            BY <1>1, <2>3, <2>4, ProductGrows
        <2> QED BY <1>1, <2>4, <2>5
    <1> QED BY <1>1, <1>3, <1>4, <1>5

\* With as many whole days, more time means no smaller bill.
LEMMA FeeGrows ==
    ASSUME NEW sec \in Nat, NEW later \in Nat, sec <= later, NEW r \in RuleRow,
           DaysOf(later, r) = DaysOf(sec, r)
    PROVE  CalcFee(sec, r) <= CalcFee(later, r)
    <1>1. RestFee(sec, r) <= RestFee(later, r)
        <2>1. Rest(sec, r) \in Nat /\ Rest(later, r) \in Nat /\ DaysOf(sec, r) \in Nat
            BY DaysAreWhole
        <2>2. /\ Billed(sec, r) \in Nat /\ Billed(later, r) \in Nat
              /\ Billed(sec, r) <= Billed(later, r)
            BY BilledGrows, BilledIsNat
        <2>3. Rest(sec, r) <= Rest(later, r)
            BY <2>1, <2>2 DEF Rest, DayMin
        <2> QED BY <2>1, <2>3, PeriodFeeGrows DEF RestFee
    <1>2. /\ r.dailyCap \in Nat /\ r.maxFee \in Nat
          /\ RestFee(sec, r) \in Nat /\ RestFee(later, r) \in Nat
          /\ Uncapped(sec, r) \in Nat /\ Uncapped(later, r) \in Nat
        BY UncappedIsNat DEF RuleRow
    <1>3. Uncapped(sec, r) <= Uncapped(later, r)
        <2> DEFINE whole == DaysOf(sec, r) * r.dailyCap
        <2>1. /\ whole \in Nat
              /\ Uncapped(sec, r) = whole + RestFee(sec, r)
              /\ Uncapped(later, r) = whole + RestFee(later, r)
            BY UncappedIsNat
        <2> HIDE DEF whole
        <2> QED BY <1>1, <1>2, <2>1
    <1>4. OverDay(sec, r) => OverDay(later, r)
        BY <1>1, <1>2 DEF OverDay
    <1>5. OverTotal(sec, r) => OverTotal(later, r)
        BY <1>2, <1>3 DEF OverTotal
    <1>6. CASE OverDay(sec, r)
        BY <1>2, <1>4, <1>6, FeeCases
    <1>7. CASE ~OverDay(sec, r) /\ OverDay(later, r)
        <2>1. /\ DaysOf(sec, r) = 0 /\ RestFee(sec, r) <= r.dailyCap
            BY <1>2, <1>7 DEF OverDay
        <2>2. Uncapped(sec, r) = RestFee(sec, r)
            BY <1>2, <2>1, UncappedIsNat
        <2>3. CalcFee(sec, r) <= Uncapped(sec, r) /\ CalcFee(sec, r) \in Nat
            BY <1>2, FeeCases
        <2> QED BY <1>2, <1>7, <2>1, <2>2, <2>3, FeeCases
    <1>8. CASE ~OverDay(sec, r) /\ ~OverDay(later, r)
        <2>1. ~OverTotal(sec, r) /\ OverTotal(later, r) => Uncapped(sec, r) <= r.maxFee
            BY <1>2 DEF OverTotal
        <2> QED BY <1>2, <1>3, <1>5, <1>8, <2>1, FeeCases
    <1> QED BY <1>6, <1>7, <1>8

\* Under one rule and within one day, a rental that lasts longer never costs
\* less, whatever the prices and the caps are.
THEOREM BillsGrow == Spec => BillGrowsWithinDay
    <1> DEFINE Grows == rule' = rule /\ DaysOf(seconds', rule) = DaysOf(seconds, rule)
                           => CalcFee(seconds', rule) >= CalcFee(seconds, rule)
    <1>1. TypeOK /\ [Next]_vars => [Grows]_vars
        <2> SUFFICES ASSUME TypeOK, Next PROVE Grows
            OBVIOUS
        <2>1. seconds' \in Nat /\ seconds <= seconds'
            BY Typed, BillingAssumption DEF Next, Pass, UpdateRule
        <2> SUFFICES ASSUME DaysOf(seconds', rule) = DaysOf(seconds, rule)
                     PROVE  CalcFee(seconds', rule) >= CalcFee(seconds, rule)
            OBVIOUS
        <2>2. CalcFee(seconds, rule) <= CalcFee(seconds', rule)
            BY <2>1, Typed, FeeGrows
        <2>3. CalcFee(seconds, rule) \in Nat /\ CalcFee(seconds', rule) \in Nat
            BY <2>1, Typed, FeeCases, UncappedIsNat
        <2> QED BY <2>2, <2>3
    <1> QED BY <1>1, BillTypeCorrect, PTL DEF Spec, BillGrowsWithinDay
=============================================================================
