--------------------------- MODULE OrderLifecycle ---------------------------
(***************************************************************************)
(* The life of rental orders, their deposits, slots and batteries under    *)
(* every handler that changes them, each handler being one step: what the  *)
(* handlers do when their reads and their transaction are not interleaved  *)
(* with another request's.  SettlementRaces takes that assumption back.    *)
(*                                                                         *)
(* The device reports are an exception already here: a report that lists   *)
(* abnormal orders and then decides them one by one (each under its own    *)
(* lock, in its own transaction) puts them in `pending`, and every         *)
(* decision is a step that other handlers may precede.                     *)
(*                                                                         *)
(* What time decides (5 minutes since the last heartbeat, 1, 24 or 48      *)
(* hours since the order was created, the age of a rental) and what a      *)
(* sensor measures (state of charge) is chosen freely.                     *)
(***************************************************************************)
EXTENDS RentalStore

CONSTANTS
    Stock,          \* the battery each slot holds at the start, or NoBattery
    TopUps,         \* amounts a payment callback may credit
    Refunds,        \* refunds an operator may grant on a dispute
    MaxOrders,      \* bound: orders ever created
    MaxBalance,     \* bound: top-ups stop here
    MaxFee,         \* bound: damage fees stop when total_fee gets here
    MaxDisputes     \* bound: disputes ever filed

ASSUME LifecycleAssumption ==
    /\ Stock \in [Slots -> Batteries \cup {NoBattery}]
    /\ TopUps \subseteq Nat
    /\ Refunds \subseteq Nat
    /\ MaxOrders \in Nat
    /\ MaxBalance \in Nat
    /\ MaxFee \in Nat
    /\ MaxDisputes \in Nat

VARIABLES
    credited,       \* payment_records in status success, summed per user
    cabinets,       \* cabinets.status
    attempted,      \* slots whose door somebody has tried to open
    pending,        \* <<order, report>>: orders a report listed, undecided
    filed,          \* number of dispute_records
    disputes        \* orders of the disputes still open, with their number

vars == <<balance, lastId, orders, ledger, returned, slots, batteries,
          credited, cabinets, attempted, pending, filed, disputes>>

\* "fault" differs from "maintenance" for no handler.
CabinetStatus == {"online", "offline", "maintenance"}

\* The two reports that decide abnormal orders: an unlock result of the slot,
\* or a message that shows the cabinet is back.
Reports == {"unlocked", "recovered"}

TypeOK ==
    /\ StoreTypeOK
    /\ credited \in [Users -> Nat]
    /\ cabinets \in [Cabinets -> CabinetStatus]
    /\ attempted \subseteq Slots
    /\ pending \subseteq (OrderIds \X Reports)
    /\ filed \in Nat
    /\ disputes \in [1..filed -> OrderIds \cup {0}]

Init ==
    /\ balance = [u \in Users |-> 0]
    /\ lastId = 0
    /\ orders = [i \in 1..0 |-> 0]
    /\ ledger = [i \in 1..0 |-> 0]
    /\ returned = {}
    /\ slots = [s \in Slots |->
                   [status |-> IF Stock[s] = NoBattery THEN "empty" ELSE "occupied",
                    battery |-> Stock[s], locked |-> TRUE]]
    /\ batteries = [b \in Batteries |-> "in_cabinet"]
    /\ credited = [u \in Users |-> 0]
    /\ cabinets = [c \in Cabinets |-> "online"]
    /\ attempted = {}
    /\ pending = {}
    /\ filed = 0
    /\ disputes = [i \in 1..0 |-> 0]

\* What the handlers that only touch RentalStore leave alone.
Rest == <<credited, cabinets, attempted, pending, filed, disputes>>

-----------------------------------------------------------------------------
(* Stock and money *)

\* A payment callback credits the wallet (module PaymentCallback).
TopUp(u, amount) ==
    /\ balance[u] + amount <= MaxBalance
    /\ balance' = [balance EXCEPT ![u] = @ + amount]
    /\ credited' = [credited EXCEPT ![u] = @ + amount]
    /\ UNCHANGED <<lastId, orders, ledger, returned, slots, batteries,
                   cabinets, attempted, pending, filed, disputes>>

\* An operator puts a battery into a slot: the battery's status and its
\* previous slot are not looked at.
AssignBattery(s, b) ==
    /\ slots[s].status # "occupied"
    /\ slots' = [slots EXCEPT ![s].status = "occupied", ![s].battery = b]
    /\ batteries' = [batteries EXCEPT ![b] = "in_cabinet"]
    /\ UNCHANGED <<balance, lastId, orders, ledger, returned>>
    /\ UNCHANGED Rest

\* One slot of an inventory report: the lock as measured, the battery the slot
\* reads, and the occupancy unless the slot is being unlocked.
SlotReport(s, occupied, b, locked) ==
    /\ slots' = [slots EXCEPT
            ![s] = [status |-> IF @.status = "unlocking" THEN @.status
                               ELSE IF occupied THEN "occupied" ELSE "empty",
                    battery |-> b, locked |-> locked]]
    /\ UNCHANGED <<balance, lastId, orders, ledger, returned, batteries>>
    /\ UNCHANGED Rest

-----------------------------------------------------------------------------
(* ScanAndRent *)

\* Mutant of Active: only abnormal orders stop a user from scanning again.
ActiveAbnormal(u) == {o \in OrderIds : orders[o].user = u /\ orders[o].status = "abnormal"}

\* The orders that stop a user from scanning again: abnormal and disputed
\* orders do not.
Active(u) == {o \in OrderIds : orders[o].user = u /\ orders[o].status = "renting"}

\* The slot a scan of cabinet c gets: the one asked for, or (0) the first
\* occupied one.
TargetSlot(c, req, s) ==
    /\ CabinetOf[s] = c
    /\ IF req # 0 THEN s = req
       ELSE /\ slots[s].status = "occupied"
            /\ \A t \in Slots : CabinetOf[t] = c /\ slots[t].status = "occupied"
                                => s <= t

\* Mutant of CanAfford: the balance is not compared with the deposit.
CanAffordUnchecked(u) == balance[u] >= 0

CanAfford(u) == balance[u] >= DepositFor(u)

\* Mutants of ScanOutcome: the status of the battery is not looked at; only the
\* battery_id of the slot is.
ScanOutcomeAnyBattery(s, charged) ==
    IF slots[s].status = "fault" THEN "lock_stuck"
    ELSE IF slots[s].status # "occupied" \/ slots[s].battery = NoBattery
    THEN "battery_missing"
    ELSE IF ~charged THEN "battery_unusable"
    ELSE IF ~slots[s].locked THEN "lock_stuck"
    ELSE "rentable"

ScanOutcomeAnySlot(s, charged) ==
    IF slots[s].battery = NoBattery THEN "battery_missing" ELSE "rentable"

\* What the checks made under the slot and battery row locks come to.
ScanOutcome(s, charged) ==
    IF slots[s].status = "fault" THEN "lock_stuck"
    ELSE IF slots[s].status # "occupied" \/ slots[s].battery = NoBattery
    THEN "battery_missing"
    ELSE IF batteries[slots[s].battery] # "in_cabinet" \/ ~charged
    THEN "battery_unusable"
    ELSE IF ~slots[s].locked THEN "lock_stuck"
    ELSE "rentable"

\* createAbnormalOrder: an order in status abnormal that freezes the deposit
\* like a rental.  Without a battery row the foreign key refuses it.
CanOpenAbnormal(u, s) ==
    /\ slots[s].battery # NoBattery
    /\ CanAfford(u)

OpenAbnormal(u, s, reason) ==
    /\ CanOpenAbnormal(u, s)
    /\ lastId < MaxOrders
    /\ InsertOrder(NewOrder(u, slots[s].battery, s, "abnormal", reason),
                   balance[u])
    /\ attempted' = attempted \cup {s}

\* The cabinet is not online (under repair counts as well), or is found silent
\* for five minutes and set offline.  (createAbnormalOrder takes the first
\* occupied slot if none was asked for.)
ScanCabinetDown(u, c, req, s, silent) ==
    /\ Active(u) = {}
    /\ cabinets[c] # "online" \/ silent
    /\ TargetSlot(c, req, s)
    /\ OpenAbnormal(u, s, "cabinet_offline")
    /\ cabinets' = [cabinets EXCEPT ![c] = IF @ = "online" THEN "offline" ELSE @]
    /\ UNCHANGED <<returned, slots, batteries, credited, pending, filed, disputes>>

\* The slot or its lock is out of order, or its battery is not there.
ScanSlotFailed(u, c, req, s, charged) ==
    /\ Active(u) = {}
    /\ cabinets[c] = "online"
    /\ TargetSlot(c, req, s)
    /\ ScanOutcome(s, charged) \in {"lock_stuck", "battery_missing"}
    /\ OpenAbnormal(u, s, "unlock_failed")
    /\ UNCHANGED <<returned, slots, batteries, credited, cabinets, pending,
                   filed, disputes>>

\* The battery in the slot is not rentable: markSlotAbnormal faults the slot,
\* whether or not the abnormal order can be created then.  A silent cabinet
\* whose abnormal order could not be created gets here as well.
ScanBatteryUnusable(u, c, req, s, charged, silent) ==
    /\ Active(u) = {}
    /\ cabinets[c] = "online"
    /\ silent => ~CanOpenAbnormal(u, s)
    /\ TargetSlot(c, req, s)
    /\ ScanOutcome(s, charged) = "battery_unusable"
    /\ \/ OpenAbnormal(u, s, "unlock_failed")
       \/ /\ ~CanOpenAbnormal(u, s)
          /\ UNCHANGED <<balance, lastId, orders, ledger, attempted>>
    /\ slots' = [slots EXCEPT ![s].status = "fault"]
    /\ cabinets' = IF silent THEN [cabinets EXCEPT ![c] = "offline"]
                   ELSE cabinets
    /\ UNCHANGED <<returned, batteries, credited, pending, filed, disputes>>

\* A silent cabinet is set offline, the abnormal order cannot be created, and
\* nothing else happens: the scan is refused for the same reason, or because
\* the user's account is frozen.
ScanFindsCabinetSilent(u, c, req) ==
    /\ Active(u) = {}
    /\ cabinets[c] = "online"
    /\ \A s \in Slots : TargetSlot(c, req, s) => ~CanOpenAbnormal(u, s)
    /\ cabinets' = [cabinets EXCEPT ![c] = "offline"]
    /\ UNCHANGED <<balance, lastId, orders, ledger, returned, slots, batteries,
                   credited, attempted, pending, filed, disputes>>

\* The door is opened: the deposit is frozen and the rental starts.  The slot
\* row keeps its battery until the unlocking is confirmed.
ScanAndRent(u, c, req, s) ==
    /\ Active(u) = {}
    /\ cabinets[c] = "online"
    /\ TargetSlot(c, req, s)
    /\ ScanOutcome(s, TRUE) = "rentable"
    /\ CanAfford(u)
    /\ lastId < MaxOrders
    /\ InsertOrder(NewOrder(u, slots[s].battery, s, "renting", "none"),
                   balance[u])
    /\ slots' = [slots EXCEPT ![s].status = "unlocking"]
    /\ batteries' = [batteries EXCEPT ![slots[s].battery] = "in_use"]
    /\ attempted' = attempted \cup {s}
    /\ UNCHANGED <<returned, credited, cabinets, pending, filed, disputes>>

-----------------------------------------------------------------------------
(* Reports of the cabinet *)

\* Mutant of Undecided: the status is not part of the query.
UndecidedAnyStatus(o) == orders[o].comp = 0

\* handleUnlockSuccessForAbnormalOrders and handleCabinetRecovered list the
\* orders to decide.
Undecided(o) == orders[o].status = "abnormal" /\ orders[o].comp = 0

\* An unlock result, first, repeated or late: the sequence check's verdict on
\* a repeated or late report is ignored.  ConfirmUnlock empties the slot in
\* whatever state it is.
LockReportOpened(s) ==
    /\ s \in attempted
    /\ slots' = [slots EXCEPT ![s] = [status |-> "empty", battery |-> NoBattery,
                                      locked |-> TRUE]]
    /\ pending' = pending \cup
           {<<o, "unlocked">> : o \in {p \in OrderIds : /\ Undecided(p)
                                                       /\ orders[p].slot = s}}
    /\ UNCHANGED <<balance, lastId, orders, ledger, returned, batteries,
                   credited, cabinets, attempted, filed, disputes>>

\* An unlock failure: the renting orders of the slot become abnormal, except
\* those that started less than five minutes ago (the ones not in `old`).
LockReportFailed(s, old) ==
    /\ s \in attempted
    /\ old # {}
    /\ old \subseteq {o \in OrderIds : /\ orders[o].slot = s
                                       /\ orders[o].status = "renting"}
    /\ orders' = [o \in OrderIds |-> IF o \in old THEN AbnormalRow(orders[o])
                                     ELSE orders[o]]
    /\ UNCHANGED <<balance, lastId, ledger, returned, slots, batteries>>
    /\ UNCHANGED Rest

\* A heartbeat accepted in order: saveReport itself sets the cabinet online,
\* under repair or not, so Heartbeat finds nothing to recover afterwards.
HeartbeatInOrder(c) ==
    /\ cabinets[c] # "online"
    /\ cabinets' = [cabinets EXCEPT ![c] = "online"]
    /\ UNCHANGED <<balance, lastId, orders, ledger, returned, slots, batteries,
                   credited, attempted, pending, filed, disputes>>

\* A repeated or late heartbeat, or a replayed batch of offline reports, finds
\* the cabinet offline, sets it online and runs the recovery.
CabinetRecovered(c) ==
    /\ cabinets[c] = "offline"
    /\ cabinets' = [cabinets EXCEPT ![c] = "online"]
    /\ pending' = pending \cup
           {<<o, "recovered">> :
               o \in {p \in OrderIds : /\ Undecided(p)
                                       /\ orders[p].reason = "cabinet_offline"
                                       /\ CabinetOf[orders[p].slot] = c}}
    /\ UNCHANGED <<balance, lastId, orders, ledger, returned, slots, batteries,
                   credited, attempted, filed, disputes>>

-----------------------------------------------------------------------------
(* Deciding an abnormal order *)

\* The evidence both reports look at, read before decideCompensation...
TakenOut(o) ==
    LET s == orders[o].slot
    IN  \/ batteries[orders[o].battery] = "in_use"
        \/ slots[s].status = "empty"
        \/ slots[s].battery # orders[o].battery

StillInCabinet(o) ==
    LET s == orders[o].slot
    IN  /\ slots[s].status = "occupied"
        /\ batteries[orders[o].battery] = "in_cabinet"
        /\ slots[s].battery = orders[o].battery

\* The action a report suggests for an order, aged past the limit or not.
Suggested(o, aged) ==
    IF ~aged /\ TakenOut(o) THEN "recreate_order"
    ELSE IF ~TakenOut(o) /\ StillInCabinet(o) THEN "refund_deposit"
    ELSE "manual_review"

\* Recreating the order needs a battery that is out of the cabinets; if it is
\* not, the row is left open (compensation_status 0) although the action that
\* is recorded is a manual review.
TriedRow(row) ==
    IF batteries[row.battery] \in {"in_use", "lost", "damaged"}
    THEN RecreatedRow(row)
    ELSE LeftOpenRow(row)

\* decideCompensationActionWithReason on a listed order; it re-reads the row
\* and refuses one that is compensated, whatever its status has become.
Decide(o, action) ==
    IF orders[o].comp = 1
    THEN UNCHANGED storeVars
    ELSE \/ /\ action = "recreate_order"
            /\ orders' = [orders EXCEPT ![o] = TriedRow(orders[o])]
            /\ UNCHANGED <<balance, lastId, ledger, returned, slots, batteries>>
         \/ /\ action = "refund_deposit"
            /\ RefundTx(o, orders[o])
         \/ /\ action = "manual_review"
            /\ orders' = [orders EXCEPT ![o] = ReviewedRow(orders[o])]
            /\ UNCHANGED <<balance, lastId, ledger, returned, slots, batteries>>

\* An order older than a day (two days after an unlock result) goes to manual
\* review, whatever the evidence.
DecideListed(o, report, aged, expired) ==
    /\ <<o, report>> \in pending
    /\ pending' = pending \ {<<o, report>>}
    /\ Decide(o, IF expired THEN "manual_review" ELSE Suggested(o, aged))
    /\ UNCHANGED <<credited, cabinets, attempted, filed, disputes>>

\* HandleAbnormalCompensation: the operator decides; the battery is not
\* looked at when the order is recreated.
HandleAbnormalCompensation(o, action) ==
    /\ orders[o].status = "abnormal"
    /\ orders[o].comp \in {0, 2}
    /\ \/ /\ action = "refund_deposit"
          /\ RefundTx(o, orders[o])
       \/ /\ action = "recreate_order"
          /\ orders' = [orders EXCEPT ![o] = RecreatedRow(orders[o])]
          /\ UNCHANGED <<balance, lastId, ledger, returned, slots, batteries>>
       \/ /\ action = "manual_review"
          /\ orders' = [orders EXCEPT ![o] = ReviewedRow(orders[o])]
          /\ UNCHANGED <<balance, lastId, ledger, returned, slots, batteries>>
    /\ UNCHANGED Rest

\* The user says the door did not open: accepted at any time of the rental.
ReportUnlockFailure(o) ==
    /\ orders[o].status = "renting"
    /\ orders' = [orders EXCEPT ![o] = AbnormalRow(orders[o])]
    /\ UNCHANGED <<balance, lastId, ledger, returned, slots, batteries>>
    /\ UNCHANGED Rest

-----------------------------------------------------------------------------
(* Returning *)

\* The order a returned battery settles: the latest one renting it.
RentedAs(b, o) ==
    /\ orders[o].battery = b
    /\ orders[o].status = "renting"
    /\ \A p \in OrderIds : orders[p].battery = b /\ orders[p].status = "renting"
                           => p <= o

\* A slot detects battery b.  Without an order the return record's foreign
\* keys abort the whole transaction, so there is no step then.  A state of
\* charge out of range makes the return suspect and the order disputed.
DetectBatteryReturn(s, b, o, fee, suspect) ==
    /\ RentedAs(b, o)
    /\ fee \in FeesOf(orders[o])
    /\ ReturnTx(o, orders[o], fee,
                IF suspect THEN "disputed" ELSE "completed", 0)
    /\ slots' = [slots EXCEPT ![s] = [status |-> "occupied", battery |-> b,
                                      locked |-> TRUE]]
    /\ UNCHANGED Rest

\* An operator returns the battery for the user, into a slot not occupied.
ManualReturn(o, s, fee) ==
    /\ orders[o].status = "renting"
    /\ slots[s].status # "occupied"
    /\ fee \in FeesOf(orders[o])
    /\ ReturnTx(o, orders[o], fee, "completed", orders[o].exceptionFee)
    /\ slots' = [slots EXCEPT ![s].status = "occupied",
                              ![s].battery = orders[o].battery]
    /\ UNCHANGED Rest

-----------------------------------------------------------------------------
(* Operators: loss, damage, disputes *)

MarkLost(o, fee, lostFee) ==
    /\ orders[o].status \in {"renting", "disputed"}
    /\ fee \in FeesOf(orders[o])
    /\ LostTx(o, orders[o], fee, lostFee)
    /\ UNCHANGED Rest

MarkDamage(o, damageFee) ==
    /\ orders[o].status \in {"renting", "completed", "disputed"}
    /\ orders[o].totalFee + damageFee <= MaxFee
    /\ DamageTx(o, orders[o], damageFee)
    /\ UNCHANGED Rest

\* The user disputes an order, in any status, which makes it disputed.
CreateDispute(o) ==
    /\ filed < MaxDisputes
    /\ filed' = filed + 1
    /\ disputes' = [i \in 1..filed + 1 |-> IF i = filed + 1 THEN o
                                           ELSE disputes[i]]
    /\ orders' = [orders EXCEPT ![o] = DisputedRow(orders[o])]
    /\ UNCHANGED <<balance, lastId, ledger, returned, slots, batteries,
                   credited, cabinets, attempted, pending>>

\* Mutant of AdjustedRow: resolving the dispute completes the order.
AdjustedRowCompletes(row, adjust, refund) ==
    [row EXCEPT !.status = "completed",
                !.totalFee = IF adjust > @ THEN 0 ELSE @ - adjust,
                !.refundAmt = @ + refund]

AdjustedRow(row, adjust, refund) ==
    [row EXCEPT !.totalFee = IF adjust > @ THEN 0 ELSE @ - adjust,
                !.refundAmt = @ + refund]

\* An open dispute d is resolved with a fee adjustment and a refund, neither of
\* them bounded by what the order cost; or it is rejected.  A closed dispute
\* has no order here.
HandleDispute(d, adjust, refund) ==
    LET o == disputes[d]
    IN  /\ o # 0
        /\ disputes' = [disputes EXCEPT ![d] = 0]
        /\ orders' = [orders EXCEPT ![o] = AdjustedRow(orders[o], adjust, refund)]
        /\ ledger' = [ledger EXCEPT ![o].refund = @ + refund]
        /\ balance' = [balance EXCEPT ![orders[o].user] = @ + refund]
        /\ UNCHANGED <<lastId, returned, slots, batteries, credited, cabinets,
                       attempted, pending, filed>>

RejectDispute(d) ==
    /\ disputes[d] # 0
    /\ disputes' = [disputes EXCEPT ![d] = 0]
    /\ UNCHANGED storeVars
    /\ UNCHANGED <<credited, cabinets, attempted, pending, filed>>

-----------------------------------------------------------------------------
(* Operators: cabinets under repair *)

SetCabinet(c, status) ==
    /\ cabinets' = [cabinets EXCEPT ![c] = status]
    /\ UNCHANGED <<balance, lastId, orders, ledger, returned, slots, batteries,
                   credited, attempted, pending, filed, disputes>>

\* A repair of a slot or a battery, and any step of a repair but these two,
\* only writes repair_records, which no handler reads to decide anything: a
\* finished repair can be finished again, so every cabinet starts with one.
CreateRepair(c) == SetCabinet(c, "maintenance")

\* Whatever else is wrong with the cabinet, and without the recovery that
\* decides its abnormal orders.
ResolveRepair(c) == SetCabinet(c, "online")

\* UpdateCabinet writes whatever column it is given.
UpdateCabinet(c, status) == SetCabinet(c, status)

-----------------------------------------------------------------------------
(* The system *)

\* A request names a slot of the cabinet it scans, or none (0).
Scan ==
    \E u \in Users, c \in Cabinets, req \in Slots \cup {0} :
        \/ ScanFindsCabinetSilent(u, c, req)
        \/ \E s \in Slots :
              \/ ScanAndRent(u, c, req, s)
              \/ \E silent \in BOOLEAN : ScanCabinetDown(u, c, req, s, silent)
              \/ \E charged \in BOOLEAN : ScanSlotFailed(u, c, req, s, charged)
              \/ \E charged, silent \in BOOLEAN :
                    ScanBatteryUnusable(u, c, req, s, charged, silent)

Report ==
    \/ \E s \in Slots : LockReportOpened(s)
    \/ \E s \in Slots, old \in SUBSET OrderIds : LockReportFailed(s, old)
    \/ \E s \in Slots, occupied, locked \in BOOLEAN,
          b \in Batteries \cup {NoBattery} :
             /\ b # NoBattery => occupied
             /\ SlotReport(s, occupied, b, locked)
    \/ \E c \in Cabinets : HeartbeatInOrder(c) \/ CabinetRecovered(c)

Compensate ==
    \/ \E o \in OrderIds, r \in Reports, aged, expired \in BOOLEAN :
          DecideListed(o, r, aged, expired)
    \/ \E o \in OrderIds,
          action \in {"refund_deposit", "recreate_order", "manual_review"} :
             HandleAbnormalCompensation(o, action)
    \/ \E o \in OrderIds : ReportUnlockFailure(o)

Return ==
    \E s \in Slots, o \in OrderIds, fee \in Fees \cup {0} :
        \/ \E b \in Batteries, suspect \in BOOLEAN :
              DetectBatteryReturn(s, b, o, fee, suspect)
        \/ ManualReturn(o, s, fee)

Operate ==
    \/ \E o \in OrderIds, fee \in Fees \cup {0}, lostFee \in LostFees :
          MarkLost(o, fee, lostFee)
    \/ \E o \in OrderIds, damageFee \in DamageFees : MarkDamage(o, damageFee)
    \/ \E o \in OrderIds : CreateDispute(o)
    \/ \E d \in 1..filed :
          \/ RejectDispute(d)
          \/ \E refund \in Refunds, adjust \in Fees \cup {0} :
                HandleDispute(d, adjust, refund)

Maintain ==
    \E c \in Cabinets :
        \/ CreateRepair(c)
        \/ ResolveRepair(c)
        \/ \E status \in CabinetStatus : UpdateCabinet(c, status)

Common ==
    \/ \E u \in Users, amount \in TopUps : TopUp(u, amount)
    \/ Scan \/ Report \/ Compensate \/ Return \/ Operate \/ Maintain

Next == Common \/ \E s \in Slots, b \in Batteries : AssignBattery(s, b)

Spec == Init /\ [][Next]_vars

Renting(o) == orders[o].status = "renting"

\* The behaviours in which no abnormal order is recreated, and no operator
\* puts a battery that is being rented into a slot: the two ways a battery
\* can be rented while somebody else is renting it.
PlainNext ==
    /\ \/ Common
       \/ \E s \in Slots, b \in Batteries :
             /\ \A o \in OrderIds : Renting(o) => orders[o].battery # b
             /\ AssignBattery(s, b)
    /\ \A o \in OrderIds : orders'[o].status = "renting" => Renting(o)

PlainSpec == Init /\ [][PlainNext]_vars

-----------------------------------------------------------------------------
(* Properties *)

\* The deposit records of an order agree with its deposit_status: nothing
\* frozen for 0, the whole deposit and nothing taken out of it yet for 1, all
\* of it deducted or released, once, for 2.
DepositConservation ==
    \A o \in OrderIds :
        LET l == ledger[o]
        IN  /\ l.freeze = orders[o].depositAmt
            /\ orders[o].depositStatus = 0 => orders[o].depositAmt = 0
            /\ orders[o].depositStatus = 1 => orders[o].depositAmt > 0
            /\ l.deduct + l.release =
                  IF orders[o].depositStatus = 2 THEN l.freeze ELSE 0

\* No order ends (completed, lost, compensated) with its deposit still frozen,
\* whatever reports and operators did to it on the way.
NoEndedOrderHoldsDeposit ==
    \A o \in OrderIds :
        orders[o].depositStatus = 1 =>
            orders[o].status \in {"renting", "abnormal", "disputed"}

\* An order that reached completed did so through a return record, and a
\* return record means its deposit is settled: no report, dispute or
\* compensation completes an order or reopens its deposit.
ReturnedOrdersAreSettled ==
    \A o \in OrderIds :
        /\ orders[o].status = "completed" => o \in returned
        /\ o \in returned => orders[o].depositStatus = 2

\* f[1] + ... + f[n]
SumTo(f, n) ==
    LET sum[i \in 0..n] == IF i = 0 THEN 0 ELSE sum[i - 1] + f[i]
    IN  sum[n]

\* What each order of user u has frozen, and what it has given back.
Frozen(u) ==
    [o \in OrderIds |-> IF orders[o].user = u THEN ledger[o].freeze ELSE 0]
GivenBack(u) ==
    [o \in OrderIds |->
        IF orders[o].user = u THEN ledger[o].release + ledger[o].refund ELSE 0]

\* A user's wallet is what the payments credited, less what is frozen or was
\* deducted, plus what disputes refunded: no handler creates or loses money.
WalletReconciles ==
    \A u \in Users :
        balance[u] + SumTo(Frozen(u), lastId) =
           credited[u] + SumTo(GivenBack(u), lastId)

\* A closed deposit stays closed, and nothing more is deducted or released.
DepositClosesOnce ==
    [][\A o \in OrderIds :
          orders[o].depositStatus = 2 =>
             /\ orders'[o].depositStatus = 2
             /\ ledger'[o].deduct = ledger[o].deduct
             /\ ledger'[o].release = ledger[o].release]_vars

\* The orders of a return record never rent again: a late report or an
\* operator's compensation does not reopen them.
ReturnedNeverRentsAgain ==
    [][\A o \in returned : orders'[o].status # "renting"]_vars

\* Without recreated orders, two orders never rent the same battery, and a
\* battery that is being rented is not offered in a cabinet.
BatteryExclusive ==
    \A o, p \in OrderIds :
        Renting(o) =>
            /\ batteries[orders[o].battery] # "in_cabinet"
            /\ Renting(p) /\ orders[p].battery = orders[o].battery => p = o

\* Without recreated orders, a user never has two rentals.
OneRentalPerUser ==
    \A o, p \in OrderIds :
        Renting(o) /\ Renting(p) /\ orders[o].user = orders[p].user => o = p
=============================================================================
