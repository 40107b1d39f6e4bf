---------------------------- MODULE RentalStore ----------------------------
(***************************************************************************)
(* The PostgreSQL tables of the rental service, and the transactions that  *)
(* settle an order.  Every transaction takes the order row as the handler  *)
(* READ it (the Go variable `order`): the handlers write the whole row     *)
(* back with gorm's Save, so what matters is the copy they hold, which is  *)
(* the current row in OrderLifecycle and a possibly stale one in           *)
(* SettlementRaces.                                                        *)
(*                                                                         *)
(* Money is in units: Deposit is config.DepositAmt, Fees the results       *)
(* CalcFee may return, LostFees and DamageFees the compensations of a rule *)
(* or of an operator.  The billing algorithm itself is module BillingFee.  *)
(***************************************************************************)
EXTENDS Naturals

CONSTANTS
    Users,          \* customer accounts
    DepositFree,    \* the users whose deposit_free flag is set
    Batteries,      \* battery rows
    NoBattery,      \* a slot's battery_id when it is NULL
    Slots,          \* slot ids; "ORDER BY id" makes their order matter
    Cabinets,       \* cabinet rows
    CabinetOf,      \* the cabinet each slot belongs to
    Deposit,        \* the configured deposit
    Fees,           \* rental fees CalcFee may return for a started order
    LostFees,       \* compensation for a lost battery
    DamageFees      \* compensation for a damaged battery

ASSUME StoreAssumption ==
    /\ DepositFree \subseteq Users
    /\ NoBattery \notin Batteries
    /\ Slots \subseteq Nat
    /\ CabinetOf \in [Slots -> Cabinets]
    /\ Deposit \in Nat \ {0}
    /\ Fees \subseteq Nat
    /\ LostFees \subseteq Nat
    /\ DamageFees \subseteq Nat

VARIABLES
    balance,        \* users.balance
    lastId,         \* the last rental_orders id handed out
    orders,         \* rental_orders, by id
    ledger,         \* deposit_records, summed per order and action
    returned,       \* the order_ids in return_records (a unique index)
    slots,          \* slots
    batteries       \* batteries.status

storeVars == <<balance, lastId, orders, ledger, returned, slots, batteries>>

-----------------------------------------------------------------------------
(* Row types *)

\* Of models.OrderStatus, the values some handler commits: ScanAndRent moves a
\* row from pending to renting inside its own transaction, and returning and
\* cancelled are never assigned.
OrderStatus == {"renting", "completed", "lost", "disputed",
                "abnormal", "abnormal_compensated"}

\* abnormal_reason: the three reasons other than cabinet_offline are handled
\* alike everywhere and are one value here.
AbnormalReason == {"none", "cabinet_offline", "unlock_failed"}

SlotStatus == {"empty", "occupied", "unlocking", "fault"}

BatteryStatus == {"in_cabinet", "in_use", "lost", "damaged"}

\* rental_orders.  depositStatus: 0 none, 1 frozen, 2 closed; comp is
\* compensation_status: 0 open, 1 done, 2 manual review; started says that
\* start_time is not NULL.
OrderRow ==
    [status: OrderStatus, user: Users, battery: Batteries, slot: Slots,
     depositAmt: Nat, depositStatus: 0..2,
     totalFee: Nat, paidFee: Nat, exceptionFee: Nat, refundAmt: Nat,
     reason: AbnormalReason, comp: 0..2, started: BOOLEAN]

\* deposit_records of one order, the amounts of each action added up
LedgerRow == [freeze: Nat, deduct: Nat, release: Nat, refund: Nat]

\* slots.  locked says that lock_status is 1.
SlotRow == [status: SlotStatus, battery: Batteries \cup {NoBattery},
            locked: BOOLEAN]

OrderIds == 1..lastId

StoreTypeOK ==
    /\ balance \in [Users -> Nat]
    /\ lastId \in Nat
    /\ orders \in [OrderIds -> OrderRow]
    /\ ledger \in [OrderIds -> LedgerRow]
    /\ returned \subseteq OrderIds
    /\ slots \in [Slots -> SlotRow]
    /\ batteries \in [Batteries -> BatteryStatus]

-----------------------------------------------------------------------------
(* Opening and closing the deposit of an order *)

\* The deposit a user has to freeze, 0 for a deposit_free user.
DepositFor(u) == IF u \in DepositFree THEN 0 ELSE Deposit

\* Mutant of InsertOrder: the deposit is recorded but not taken.
InsertOrderUnpaid(row, bal) ==
    LET n == lastId + 1
        nothing == [freeze |-> row.depositAmt, deduct |-> 0, release |-> 0,
                    refund |-> 0]
    IN  /\ lastId' = n
        /\ orders' = [i \in 1..n |-> IF i = n THEN row ELSE orders[i]]
        /\ ledger' = [i \in 1..n |-> IF i = n THEN nothing ELSE ledger[i]]
        /\ balance' = [balance EXCEPT ![row.user] = bal]

\* INSERT INTO rental_orders, together with the deposit freeze: the handler
\* writes `bal - deposit` where bal is the balance it read earlier.
InsertOrder(row, bal) ==
    LET n == lastId + 1
    IN  /\ lastId' = n
        /\ orders' = [i \in 1..n |-> IF i = n THEN row ELSE orders[i]]
        /\ ledger' = [i \in 1..n |->
                         IF i = n
                         THEN [freeze |-> row.depositAmt, deduct |-> 0,
                               release |-> 0, refund |-> 0]
                         ELSE ledger[i]]
        /\ balance' = IF row.depositAmt > 0
                      THEN [balance EXCEPT ![row.user] = bal - row.depositAmt]
                      ELSE balance

\* A fresh order row of user u for battery b in slot s.
NewOrder(u, b, s, status, reason) ==
    [status |-> status, user |-> u, battery |-> b, slot |-> s,
     depositAmt |-> DepositFor(u),
     depositStatus |-> IF DepositFor(u) > 0 THEN 1 ELSE 0,
     totalFee |-> 0, paidFee |-> 0, exceptionFee |-> 0, refundAmt |-> 0,
     reason |-> reason, comp |-> 0, started |-> (status = "renting")]

\* Mutant of HoldsDeposit: deposit_status is not looked at.
EverHeldDeposit(row) == row.depositAmt > 0

HoldsDeposit(row) == row.depositStatus = 1 /\ row.depositAmt > 0

\* Mutant of Deducted: the fee is deducted even if the deposit is smaller.
DeductedUncapped(row, fee) == fee

\* What a fee takes out of a frozen deposit, and what is left to give back.
Deducted(row, fee) == IF fee >= row.depositAmt THEN row.depositAmt ELSE fee
Released(row, fee) ==
    IF HoldsDeposit(row) THEN row.depositAmt - Deducted(row, fee) ELSE 0

\* Mutants of CloseDeposit: the whole deposit is given back whatever is
\* deducted; nothing is written to deposit_records.
CloseDepositWhole(o, row, fee) ==
    IF HoldsDeposit(row)
    THEN /\ balance' = [balance EXCEPT ![row.user] = @ + row.depositAmt]
         /\ ledger' = [ledger EXCEPT
                          ![o].deduct = @ + Deducted(row, fee),
                          ![o].release = @ + Released(row, fee)]
    ELSE UNCHANGED <<balance, ledger>>

CloseDepositUnrecorded(o, row, fee) ==
    /\ balance' = [balance EXCEPT ![row.user] = @ + Released(row, fee)]
    /\ UNCHANGED ledger

\* Deduct the fee from the deposit of order o and release the rest to the
\* wallet (whose row is locked and re-read); nothing if `row` shows no frozen
\* deposit.  A compensation is the case fee = 0.
CloseDeposit(o, row, fee) ==
    IF HoldsDeposit(row)
    THEN /\ balance' = [balance EXCEPT ![row.user] = @ + Released(row, fee)]
         /\ ledger' = [ledger EXCEPT
                          ![o].deduct = @ + Deducted(row, fee),
                          ![o].release = @ + Released(row, fee)]
    ELSE UNCHANGED <<balance, ledger>>

-----------------------------------------------------------------------------
(* The settling transactions *)

\* The fee CalcFee returns for an order: a NULL start_time counts as "now".
FeesOf(row) == IF row.started THEN Fees ELSE {0}

MaxOf(m, n) == IF m >= n THEN m ELSE n

ReturnedRow(row, fee, status, exceptionFee) ==
    [row EXCEPT !.status = status, !.totalFee = fee, !.paidFee = fee,
                !.refundAmt = Released(row, fee),
                !.exceptionFee = exceptionFee, !.depositStatus = 2]

\* Mutant of ReturnTx: return_records has no unique index.
ReturnTxUnindexed(o, row, fee, status, exceptionFee) ==
    /\ returned' = returned \cup {o}
    /\ CloseDeposit(o, row, fee)
    /\ orders' = [orders EXCEPT
                     ![o] = ReturnedRow(row, fee, status, exceptionFee)]
    /\ batteries' = [batteries EXCEPT ![row.battery] = "in_cabinet"]
    /\ UNCHANGED lastId

\* The part DetectBatteryReturn and ManualReturn share.  The unique index of
\* return_records aborts the transaction of a second return of the order.
ReturnTx(o, row, fee, status, exceptionFee) ==
    /\ o \notin returned
    /\ returned' = returned \cup {o}
    /\ CloseDeposit(o, row, fee)
    /\ orders' = [orders EXCEPT
                     ![o] = ReturnedRow(row, fee, status, exceptionFee)]
    /\ batteries' = [batteries EXCEPT ![row.battery] = "in_cabinet"]
    /\ UNCHANGED lastId

\* Mutant of LostRow: deposit_status is left at frozen.
LostRowFrozen(row, fee, lostFee) ==
    [row EXCEPT !.status = "lost", !.totalFee = MaxOf(fee, lostFee),
                !.exceptionFee = lostFee]

\* The transaction of MarkLost: the larger of the rental fee and the
\* compensation is billed.
LostRow(row, fee, lostFee) ==
    [row EXCEPT !.status = "lost", !.totalFee = MaxOf(fee, lostFee),
                !.exceptionFee = lostFee,
                !.refundAmt = Released(row, MaxOf(fee, lostFee)),
                !.depositStatus = 2]

LostTx(o, row, fee, lostFee) ==
    /\ CloseDeposit(o, row, MaxOf(fee, lostFee))
    /\ orders' = [orders EXCEPT ![o] = LostRow(row, fee, lostFee)]
    /\ batteries' = [batteries EXCEPT ![row.battery] = "lost"]
    /\ UNCHANGED <<lastId, returned, slots>>

\* The transaction of MarkDamage.
DamagedRow(row, damageFee) ==
    [row EXCEPT !.exceptionFee = @ + damageFee, !.totalFee = @ + damageFee]

DamageTx(o, row, damageFee) ==
    /\ orders' = [orders EXCEPT ![o] = DamagedRow(row, damageFee)]
    /\ batteries' = [batteries EXCEPT ![row.battery] = "damaged"]
    /\ UNCHANGED <<balance, lastId, ledger, returned, slots>>

\* Mutant of RefundedRow: deposit_status is not written.
RefundedRowFrozen(cur, row) ==
    [cur EXCEPT !.status = "abnormal_compensated", !.comp = 1]

\* A full refund of the deposit as compensation: without a frozen deposit the
\* abnormal order is just closed.  Only these columns are written, over `cur`,
\* the row as it is when the UPDATE runs.
RefundedRow(cur, row) ==
    [cur EXCEPT !.status = "abnormal_compensated",
                !.depositStatus = IF HoldsDeposit(row) THEN 2
                                  ELSE row.depositStatus,
                !.refundAmt = IF HoldsDeposit(row) THEN row.depositAmt
                              ELSE row.refundAmt,
                !.comp = 1]

\* Mutant of RefundTx: the order is closed without releasing its deposit.
RefundTxUnpaid(o, row) ==
    /\ orders' = [orders EXCEPT ![o] = RefundedRow(orders[o], row)]
    /\ UNCHANGED <<balance, ledger, lastId, returned, slots, batteries>>

RefundTx(o, row) ==
    /\ CloseDeposit(o, row, 0)
    /\ orders' = [orders EXCEPT ![o] = RefundedRow(orders[o], row)]
    /\ UNCHANGED <<lastId, returned, slots, batteries>>

\* Recreating the order of a failed scan: it rents and is billed from now on.
RecreatedRow(cur) ==
    [cur EXCEPT !.status = "renting", !.started = TRUE, !.comp = 1]

\* A decision that sends the order to manual review, and one that leaves it
\* open (compensation_status 0).
ReviewedRow(cur) == [cur EXCEPT !.comp = 2]
LeftOpenRow(cur) == [cur EXCEPT !.comp = 0]

DisputedRow(cur) == [cur EXCEPT !.status = "disputed"]

\* Turning an order abnormal after a failed unlocking: a column update that
\* keeps the rest of the row, and touches neither slot, battery nor deposit.
AbnormalRow(cur) ==
    [cur EXCEPT !.status = "abnormal", !.reason = "unlock_failed",
                !.started = FALSE, !.comp = 0]
=============================================================================
