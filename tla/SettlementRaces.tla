-------------------------- MODULE SettlementRaces --------------------------
(***************************************************************************)
(* The handlers of OrderLifecycle that settle or change an order, as they  *)
(* overlap: each reads the order (or, for a scan, the user) with an        *)
(* unlocked SELECT, and its transaction commits later with what it read.   *)
(* Only the wallet row is read again under a lock in the transaction, and  *)
(* only by the handlers that release a deposit.                            *)
(*                                                                         *)
(* Redis locks are taken before or after the read: return:{battery},       *)
(* op_order:{order}, comp:{order} and user_rent:{user} exclude handlers of *)
(* the same family; nothing excludes handlers of different families.       *)
(* Families says which handlers may overlap: {{k}} is a handler that only  *)
(* overlaps itself, {{k, l}} adds another one.  A handler in no family     *)
(* runs alone.                                                             *)
(***************************************************************************)
EXTENDS OrderLifecycle

CONSTANTS
    Requests,       \* requests being served
    Kinds,          \* the handlers that run at all
    Families,       \* sets of handlers that may overlap
    Expiring        \* the locks whose time to live may end before their holder

Handlers == {"detect", "manual", "lost", "damage", "decide", "compensate",
             "fail", "rent", "abnormal", "inventory",
             "scan", "credit", "dispute", "report"}

LockNames == {"return", "op_order", "comp", "user_rent"}

ASSUME RacesAssumption ==
    /\ Kinds \subseteq Handlers
    /\ Families \subseteq SUBSET Handlers
    /\ Expiring \subseteq LockNames

VARIABLE work       \* what each request has read

raceVars == <<vars, work>>

NotWorking == [kind |-> "idle"]

\* A request that has read order o; what a decision will do; a scan that has
\* read its user; one that failed at slot s, and has read its user again; and
\* an inventory report that has read slot s and the battery in it.
Read(kind, o, action) ==
    [kind |-> kind, order |-> o, got |-> orders[o], action |-> action]

ReadUser(u, c) == [kind |-> "rent", user |-> u, cabinet |-> c, bal |-> balance[u]]

ReadFailed(u, s, reason) ==
    [kind |-> "abnormal", user |-> u, slot |-> s, reason |-> reason,
     bal |-> balance[u]]

ReadSlot(s) ==
    [kind |-> "inventory", slot |-> s, row |-> slots[s],
     status |-> IF slots[s].battery = NoBattery THEN "none"
                ELSE batteries[slots[s].battery]]

RacesInit == Init /\ work = [r \in Requests |-> NotWorking]

-----------------------------------------------------------------------------
(* Locks, and who may overlap whom *)

\* The Redis lock a request holds between its read and its commit.
LockOf(w) ==
    CASE w.kind = "detect" -> <<"return", w.got.battery>>
      [] w.kind \in {"lost", "damage"} -> <<"op_order", w.order>>
      [] w.kind = "decide" -> <<"comp", w.order>>
      [] w.kind \in {"rent", "abnormal"} -> <<"user_rent", w.user>>
      [] OTHER -> <<"none">>

\* Mutant of LockFree: the lock is always granted.
LockIgnored(name, what) == name \in LockNames

\* Nobody refreshes a lock: one that expires while its holder is at work can be
\* taken by the next request.
LockFree(name, what) ==
    name \in Expiring \/ \A r \in Requests : LockOf(work[r]) # <<name, what>>

MayOverlap(kind) ==
    /\ kind \in Kinds
    /\ \A r \in Requests :
          \/ work[r].kind = "idle"
          \/ \E F \in Families : {kind, work[r].kind} \subseteq F

\* The handlers whose read and commit are one step here, because they lock
\* what they read or write without reading.
Alone(kind) == MayOverlap(kind) /\ UNCHANGED work

Start(r, w) ==
    /\ work[r].kind = "idle"
    /\ MayOverlap(w.kind)
    /\ work' = [work EXCEPT ![r] = w]

Finish(r, kind) ==
    /\ work[r].kind = kind
    /\ work' = [work EXCEPT ![r] = NotWorking]

-----------------------------------------------------------------------------
(* Returns *)

\* The lock is taken first; the order is looked up under it.
StartDetect(r, b, o) ==
    /\ LockFree("return", b)
    /\ RentedAs(b, o)
    /\ Start(r, Read("detect", o, "none"))
    /\ UNCHANGED vars

FinishDetect(r, s, fee, suspect) ==
    LET w == work[r]
    IN  /\ Finish(r, "detect")
        /\ fee \in FeesOf(w.got)
        /\ ReturnTx(w.order, w.got, fee,
                    IF suspect THEN "disputed" ELSE "completed", 0)
        /\ slots' = [slots EXCEPT ![s] = [status |-> "occupied",
                                          battery |-> w.got.battery,
                                          locked |-> TRUE]]
        /\ UNCHANGED Rest

\* The order is read and checked before the lock, and not read again.
StartManual(r, o) ==
    /\ orders[o].status = "renting"
    /\ Start(r, Read("manual", o, "none"))
    /\ UNCHANGED vars

FinishManual(r, s, fee) ==
    LET w == work[r]
    IN  /\ Finish(r, "manual")
        /\ LockFree("return", w.got.battery)
        /\ slots[s].status # "occupied"
        /\ fee \in FeesOf(w.got)
        /\ ReturnTx(w.order, w.got, fee, "completed", w.got.exceptionFee)
        /\ slots' = [slots EXCEPT ![s].status = "occupied",
                                  ![s].battery = w.got.battery]
        /\ UNCHANGED Rest

-----------------------------------------------------------------------------
(* Operators *)

\* MarkLost and MarkDamage read under the lock they share.
StartLost(r, o) ==
    /\ LockFree("op_order", o)
    /\ orders[o].status \in {"renting", "disputed"}
    /\ Start(r, Read("lost", o, "none"))
    /\ UNCHANGED vars

FinishLost(r, fee, lostFee) ==
    LET w == work[r]
    IN  /\ Finish(r, "lost")
        /\ fee \in FeesOf(w.got)
        /\ LostTx(w.order, w.got, fee, lostFee)
        /\ UNCHANGED Rest

StartDamage(r, o) ==
    /\ LockFree("op_order", o)
    /\ orders[o].status \in {"renting", "completed", "disputed"}
    /\ Start(r, Read("damage", o, "none"))
    /\ UNCHANGED vars

FinishDamage(r, damageFee) ==
    LET w == work[r]
    IN  /\ Finish(r, "damage")
        /\ w.got.totalFee + damageFee <= MaxFee
        /\ DamageTx(w.order, w.got, damageFee)
        /\ UNCHANGED Rest

-----------------------------------------------------------------------------
(* Compensation *)

\* A listed order is read again under its lock; one that is compensated, or
\* that somebody else is deciding, is passed over.
StartDecide(r, o, report, aged, expired) ==
    /\ <<o, report>> \in pending
    /\ pending' = pending \ {<<o, report>>}
    /\ IF LockFree("comp", o) /\ orders[o].comp # 1
       THEN Start(r, Read("decide", o, IF expired THEN "manual_review"
                                       ELSE Suggested(o, aged)))
       ELSE Alone("decide")
    /\ UNCHANGED <<storeVars, credited, cabinets, attempted, filed, disputes>>

\* The operator's decision reads without a lock.
StartCompensate(r, o, action) ==
    /\ orders[o].status = "abnormal"
    /\ orders[o].comp \in {0, 2}
    /\ Start(r, Read("compensate", o, action))
    /\ UNCHANGED vars

\* The row a decision aims at, from the row it read.
Decision(w) ==
    IF w.action = "refund_deposit" THEN RefundedRow(w.got, w.got)
    ELSE IF w.action = "manual_review" THEN ReviewedRow(w.got)
    ELSE IF w.kind = "decide" THEN TriedRow(w.got)
    ELSE RecreatedRow(w.got)

\* Its UPDATE writes these columns, changed or not, over the current row.
DecidedRow(cur, new) ==
    [cur EXCEPT !.status = new.status, !.comp = new.comp,
                !.depositStatus = new.depositStatus, !.refundAmt = new.refundAmt,
                !.started = @ \/ (new.comp = 1 /\ new.status = "renting")]

FinishDecision(r, kind) ==
    LET w == work[r]
    IN  /\ Finish(r, kind)
        /\ IF w.action = "refund_deposit"
           THEN CloseDeposit(w.order, w.got, 0)
           ELSE UNCHANGED <<balance, ledger>>
        /\ orders' = [orders EXCEPT ![w.order] = DecidedRow(@, Decision(w))]
        /\ UNCHANGED <<lastId, returned, slots, batteries>>
        /\ UNCHANGED Rest

\* An unlocking that failed, reported by the user or by the cabinet: the order
\* is checked when it is read, and made abnormal whatever it is by then.
StartFail(r, o) ==
    /\ orders[o].status = "renting"
    /\ Start(r, Read("fail", o, "none"))
    /\ UNCHANGED vars

FinishFail(r) ==
    LET o == work[r].order
    IN  /\ Finish(r, "fail")
        /\ orders' = [orders EXCEPT ![o] = AbnormalRow(@)]
        /\ UNCHANGED <<balance, lastId, ledger, returned, slots, batteries>>
        /\ UNCHANGED Rest

-----------------------------------------------------------------------------
(* Scans *)

\* The user is read before the transaction.
StartRent(r, u, c) ==
    /\ LockFree("user_rent", u)
    /\ Active(u) = {}
    /\ cabinets[c] = "online"
    /\ Start(r, ReadUser(u, c))
    /\ UNCHANGED vars

\* Slot and battery are read under row locks; the balance is compared, and
\* written, as it was read.
FinishRent(r, s) ==
    LET w == work[r]
    IN  /\ Finish(r, "rent")
        /\ CabinetOf[s] = w.cabinet
        /\ ScanOutcome(s, TRUE) = "rentable"
        /\ w.bal >= DepositFor(w.user)
        /\ lastId < MaxOrders
        /\ InsertOrder(NewOrder(w.user, slots[s].battery, s, "renting", "none"),
                       w.bal)
        /\ slots' = [slots EXCEPT ![s].status = "unlocking"]
        /\ batteries' = [batteries EXCEPT ![slots[s].battery] = "in_use"]
        /\ attempted' = attempted \cup {s}
        /\ UNCHANGED <<returned, credited, cabinets, pending, filed, disputes>>

\* A scan that fails at slot s: createAbnormalOrder reads the user again, before
\* a transaction of its own, and writes the balance back from what it read.
StartAbnormal(r, u, s, reason) ==
    /\ LockFree("user_rent", u)
    /\ Active(u) = {}
    /\ IF reason = "cabinet_offline" THEN cabinets[CabinetOf[s]] # "online"
       ELSE /\ cabinets[CabinetOf[s]] = "online"
            /\ ScanOutcome(s, TRUE) \in {"lock_stuck", "battery_missing"}
    /\ Start(r, ReadFailed(u, s, reason))
    /\ UNCHANGED vars

FinishAbnormal(r) ==
    LET w == work[r]
    IN  /\ Finish(r, "abnormal")
        /\ slots[w.slot].battery # NoBattery
        /\ w.bal >= DepositFor(w.user)
        /\ lastId < MaxOrders
        /\ InsertOrder(NewOrder(w.user, slots[w.slot].battery, w.slot,
                                "abnormal", w.reason), w.bal)
        /\ attempted' = attempted \cup {w.slot}
        /\ UNCHANGED <<returned, slots, batteries, credited, cabinets, pending,
                       filed, disputes>>

-----------------------------------------------------------------------------
(* Inventory *)

\* An inventory report that tells what the tables say anyway: the slot row and
\* the battery row are read, without a transaction.
StartInventory(r, s) ==
    /\ Start(r, ReadSlot(s))
    /\ UNCHANGED vars

\* The battery row is written back whole; of the slot row the columns the
\* report has, the status unless the slot that was read is being unlocked.
FinishInventory(r) ==
    LET w == work[r]
        b == w.row.battery
    IN  /\ Finish(r, "inventory")
        /\ batteries' = IF b = NoBattery THEN batteries
                        ELSE [batteries EXCEPT ![b] = w.status]
        /\ slots' = [slots EXCEPT
                ![w.slot] = [status |-> IF w.row.status = "unlocking" THEN @.status
                                        ELSE IF b = NoBattery THEN "empty"
                                        ELSE "occupied",
                             battery |-> b, locked |-> w.row.locked]]
        /\ UNCHANGED <<balance, lastId, orders, ledger, returned>>
        /\ UNCHANGED Rest

-----------------------------------------------------------------------------
(* The system *)

\* A request that fails, because it does not get a lock or its transaction is
\* rolled back, leaves nothing behind.
GiveUp(r) ==
    /\ work[r].kind # "idle"
    /\ work' = [work EXCEPT ![r] = NotWorking]
    /\ UNCHANGED vars

\* The slots whose door somebody tried to open report it open, and a silent
\* cabinet reports again.
Reported ==
    \/ \E s \in Slots : LockReportOpened(s)
    \/ \E c \in Cabinets : CabinetRecovered(c)

Disputed ==
    \/ \E o \in OrderIds : CreateDispute(o)
    \/ \E d \in 1..filed, refund \in Refunds, adjust \in Fees \cup {0} :
          HandleDispute(d, adjust, refund)

Begin(r) ==
    \/ \E b \in Batteries, o \in OrderIds : StartDetect(r, b, o)
    \/ \E o \in OrderIds :
          StartManual(r, o) \/ StartLost(r, o) \/ StartDamage(r, o) \/ StartFail(r, o)
    \/ \E o \in OrderIds, report \in Reports, aged, expired \in BOOLEAN :
          StartDecide(r, o, report, aged, expired)
    \/ \E o \in OrderIds,
          action \in {"refund_deposit", "recreate_order", "manual_review"} :
             StartCompensate(r, o, action)
    \/ \E u \in Users, c \in Cabinets : StartRent(r, u, c)
    \/ \E u \in Users, s \in Slots, reason \in {"cabinet_offline", "unlock_failed"} :
          StartAbnormal(r, u, s, reason)
    \/ \E s \in Slots : StartInventory(r, s)

End(r) ==
    \/ \E s \in Slots, fee \in Fees \cup {0} :
          \/ \E suspect \in BOOLEAN : FinishDetect(r, s, fee, suspect)
          \/ FinishManual(r, s, fee)
    \/ \E fee \in Fees \cup {0}, lostFee \in LostFees : FinishLost(r, fee, lostFee)
    \/ \E damageFee \in DamageFees : FinishDamage(r, damageFee)
    \/ FinishDecision(r, "decide") \/ FinishDecision(r, "compensate")
    \/ FinishFail(r)
    \/ \E s \in Slots : FinishRent(r, s)
    \/ FinishAbnormal(r) \/ FinishInventory(r)
    \/ GiveUp(r)

RacesNext ==
    \/ \E r \in Requests : Begin(r) \/ End(r)
    \/ Alone("credit") /\ \E u \in Users, amount \in TopUps : TopUp(u, amount)
    \/ Alone("scan") /\ Scan
    \/ Alone("report") /\ Reported
    \/ Alone("dispute") /\ Disputed

RacesSpec == RacesInit /\ [][RacesNext]_raceVars

-----------------------------------------------------------------------------
(* Properties, next to those of OrderLifecycle *)

RacesTypeOK ==
    /\ TypeOK
    /\ \A r \in Requests :
          \/ work[r] = NotWorking
          \/ work[r].kind \in {"rent", "abnormal"} /\ work[r].bal \in Nat
          \/ work[r].kind = "inventory" /\ work[r].row \in SlotRow
          \/ /\ work[r].kind \in Handlers \ {"rent", "abnormal", "inventory"}
             /\ work[r].got \in OrderRow

\* Overlapping scans do not give a user two rentals: if there are two, one was
\* opened by a compensation.
SecondRentalWasRecreated ==
    \A o, p \in OrderIds :
        Renting(o) /\ Renting(p) /\ orders[o].user = orders[p].user /\ o # p
            => orders[o].comp = 1 \/ orders[p].comp = 1

\* Two scans that overlap never get the same battery.
BatterySoldOnce ==
    [][\A o \in 1..lastId' \ OrderIds :
          orders'[o].status = "renting" =>
              \A p \in OrderIds :
                  Renting(p) => orders[p].battery # orders'[o].battery]_raceVars
=============================================================================
