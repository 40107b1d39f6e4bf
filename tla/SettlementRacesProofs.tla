----------------------- MODULE SettlementRacesProofs -----------------------
(***************************************************************************)
(* Proofs about SettlementRaces: handlers that read a row, and write it    *)
(* back later over what other handlers made of it meanwhile.               *)
(*                                                                         *)
(* Type correctness holds whatever overlaps and whichever locks expire: a  *)
(* row or a balance that was read is a row or a balance, and what a        *)
(* handler computes from a stale one is still well typed (a balance read   *)
(* is compared with the deposit before the deposit is taken from it).      *)
(*                                                                         *)
(* That a second rental of a user comes from a compensation needs the lock *)
(* of the scans, user_rent, to outlive its holder, and scans not to        *)
(* overlap the two handlers that may write back an order as they read it,  *)
(* renting: the damage report and the decision of a device report.  Every  *)
(* other handler may overlap any scan.                                     *)
(*                                                                         *)
(* That a battery is not sold while it is rented needs no Redis lock: the  *)
(* unique index of return_records lets one return of an order put its      *)
(* battery back, and a scan reads the battery under a row lock.            *)
(*                                                                         *)
(* That deposits add up, that a closed deposit never changes and that a    *)
(* returned order stays returned need DepositsApart: the locks of the      *)
(* operators outlive their holders, and the handlers that write back a     *)
(* whole order overlap no other that closes its deposit.  The lock of the  *)
(* returns may expire: their inserts into return_records come first.       *)
(***************************************************************************)
EXTENDS SettlementRaces, OrderLifecycleProofs

OrderKinds == Handlers \ {"rent", "abnormal", "inventory"}

\* What a request may hold, among the orders ids.
WorkOK(w, ids) ==
    \/ w = NotWorking
    \/ w.kind \in OrderKinds /\ w.order \in ids /\ w.got \in OrderRow
    \/ w.kind = "rent" /\ w.user \in Users /\ w.bal \in Nat
    \/ /\ w.kind = "abnormal" /\ w.user \in Users /\ w.slot \in Slots
       /\ w.reason \in AbnormalReason /\ w.bal \in Nat
    \/ /\ w.kind = "inventory" /\ w.slot \in Slots /\ w.row \in SlotRow
       /\ w.row.battery # NoBattery => w.status \in BatteryStatus

RacesInv ==
    /\ TypeOK
    /\ work = [r \in Requests |-> work[r]]
    /\ \A r \in Requests : WorkOK(work[r], OrderIds)

-----------------------------------------------------------------------------
(* Transactions with a stale row *)

\* Closing a deposit with any row that was read keeps the types.
LEMMA StaleCloseType ==
    ASSUME TypeOK, NEW o \in OrderIds, NEW row \in OrderRow, NEW fee \in Nat,
           CloseDeposit(o, row, fee)
    PROVE  /\ balance' \in [Users -> Nat]
           /\ ledger' \in [OrderIds -> LedgerRow]
    <1> DEFINE d == Deducted(row, fee)
               r == Released(row, fee)
               a == ledger[o].deduct + d
               c == ledger[o].release + r
               l == [ledger[o] EXCEPT !.deduct = a, !.release = c]
    <1>1. /\ balance \in [Users -> Nat] /\ ledger \in [OrderIds -> LedgerRow]
          /\ ledger[o] \in LedgerRow
        BY Kept
    <1>2. row.user \in Users
        BY DEF OrderRow
    <1>3. d \in Nat /\ r \in Nat
        BY DepositSplit
    <1>4. CASE HoldsDeposit(row)
        <2>1. /\ balance' = [balance EXCEPT ![row.user] = @ + r]
              /\ ledger' = [ledger EXCEPT ![o] = l]
            BY <1>4, <1>1 DEF CloseDeposit
        <2> HIDE DEF d, r
        <2>2. a \in Nat /\ c \in Nat
            BY <1>1, <1>3 DEF LedgerRow
        <2> HIDE DEF a, c
        <2>3. l \in LedgerRow
            BY <1>1, <2>2 DEF LedgerRow
        <2> HIDE DEF l
        <2> QED BY <2>1, <2>3, <1>1, <1>2, <1>3
    <1>5. CASE ~HoldsDeposit(row)
        BY <1>5, <1>1 DEF CloseDeposit
    <1> QED BY <1>4, <1>5

\* A return settled from a stale row.
LEMMA StaleReturnType ==
    ASSUME TypeOK, NEW o \in OrderIds, NEW row \in OrderRow, NEW fee \in Nat,
           NEW status \in OrderStatus, NEW x \in Nat,
           ReturnTx(o, row, fee, status, x)
    PROVE  /\ balance' \in [Users -> Nat]
           /\ orders' \in [OrderIds -> OrderRow]
           /\ ledger' \in [OrderIds -> LedgerRow]
           /\ returned' \subseteq OrderIds
           /\ batteries' \in [Batteries -> BatteryStatus]
           /\ lastId' = lastId
    <1>1. ReturnedRow(row, fee, status, x) \in OrderRow
        BY ReturnedRowFacts
    <1>2. orders' \in [OrderIds -> OrderRow]
        BY <1>1, OrderRewritten DEF ReturnTx
    <1>3. batteries' \in [Batteries -> BatteryStatus]
        BY Kept DEF ReturnTx, BatteryStatus
    <1>4. returned' \subseteq OrderIds
        BY Kept DEF ReturnTx
    <1> QED BY <1>2, <1>3, <1>4, StaleCloseType DEF ReturnTx

\* An order inserted with a balance read earlier, if it covers the deposit.
LEMMA StaleInsertType ==
    ASSUME TypeOK, NEW u \in Users, NEW b \in Batteries, NEW s \in Slots,
           NEW status \in OrderStatus, NEW reason \in AbnormalReason,
           NEW bal \in Nat, bal >= DepositFor(u),
           InsertOrder(NewOrder(u, b, s, status, reason), bal)
    PROVE  /\ lastId' \in Nat
           /\ OrderIds \subseteq OrderIds'
           /\ \A o \in OrderIds' : o \notin OrderIds => o = lastId'
           /\ balance' \in [Users -> Nat]
           /\ orders' \in [OrderIds' -> OrderRow]
           /\ ledger' \in [OrderIds' -> LedgerRow]
           /\ \A o \in OrderIds : orders'[o] = orders[o]
           /\ orders'[lastId'] = NewOrder(u, b, s, status, reason)
    <1> DEFINE row == NewOrder(u, b, s, status, reason)
               l == [freeze |-> DepositFor(u), deduct |-> 0, release |-> 0,
                     refund |-> 0]
    <1>1. /\ row \in OrderRow /\ row.user = u
          /\ row.depositAmt = DepositFor(u) /\ DepositFor(u) \in Nat
        BY NewOrderRow
    <1>2. l \in LedgerRow
        BY <1>1 DEF LedgerRow
    <1>3. /\ lastId \in Nat /\ balance \in [Users -> Nat]
          /\ orders \in [OrderIds -> OrderRow]
          /\ ledger \in [OrderIds -> LedgerRow]
        BY Kept
    <1>4. /\ lastId' = lastId + 1
          /\ orders' = [i \in 1..(lastId + 1) |-> IF i = lastId + 1 THEN row
                                                  ELSE orders[i]]
          /\ ledger' = [i \in 1..(lastId + 1) |-> IF i = lastId + 1 THEN l
                                                  ELSE ledger[i]]
          /\ balance' = IF DepositFor(u) > 0
                        THEN [balance EXCEPT ![u] = bal - DepositFor(u)]
                        ELSE balance
        BY <1>1 DEF InsertOrder
    <1>5. balance' \in [Users -> Nat] /\ lastId' \in Nat
        BY <1>1, <1>3, <1>4
    <1> HIDE DEF row, l
    <1>6. /\ orders' \in [OrderIds' -> OrderRow]
          /\ ledger' \in [OrderIds' -> LedgerRow]
          /\ OrderIds \subseteq OrderIds'
          /\ \A o \in OrderIds' : o \notin OrderIds => o = lastId'
          /\ \A o \in OrderIds : orders'[o] = orders[o]
          /\ orders'[lastId'] = row
        BY <1>1, <1>2, <1>3, <1>4 DEF OrderIds
    <1> QED BY <1>5, <1>6 DEF row

\* What a decision aims at is a row, and so is that row written over the
\* current one.
LEMMA DecisionType ==
    ASSUME TypeOK, NEW w, w.got \in OrderRow
    PROVE  Decision(w) \in OrderRow
    BY RefundedRowFacts, DecidedRowFacts, RecreatedRowFacts
       DEF Decision, TriedRow

LEMMA DecidedType ==
    ASSUME NEW cur \in OrderRow, NEW new \in OrderRow
    PROVE  LET r == DecidedRow(cur, new)
           IN  /\ r \in OrderRow
               /\ r.status = new.status /\ r.comp = new.comp
               /\ r.user = cur.user /\ r.battery = cur.battery
    <1> DEFINE r1 == [cur EXCEPT !.status = new.status, !.comp = new.comp]
               r2 == [r1 EXCEPT !.depositStatus = new.depositStatus,
                                !.refundAmt = new.refundAmt]
               st == cur.started \/ (new.comp = 1 /\ new.status = "renting")
               r3 == [r2 EXCEPT !.started = st]
    <1>1. /\ r1 \in OrderRow /\ r1.status = new.status /\ r1.comp = new.comp
          /\ r1.user = cur.user /\ r1.battery = cur.battery
        BY DEF OrderRow
    <1>2. DecidedRow(cur, new) = r3
        BY DEF DecidedRow
    <1> HIDE DEF r1
    <1>3. /\ r2 \in OrderRow /\ r2.status = r1.status /\ r2.comp = r1.comp
          /\ r2.user = r1.user /\ r2.battery = r1.battery
        BY <1>1 DEF OrderRow
    <1> HIDE DEF r2
    <1>4. st \in BOOLEAN
        BY DEF OrderRow
    <1> HIDE DEF st
    <1>5. /\ r3 \in OrderRow /\ r3.status = r2.status /\ r3.comp = r2.comp
          /\ r3.user = r2.user /\ r3.battery = r2.battery
        BY <1>3, <1>4 DEF OrderRow
    <1> HIDE DEF r3
    <1> QED BY <1>1, <1>2, <1>3, <1>5

-----------------------------------------------------------------------------
(* Type correctness *)

\* Orders are only added, so what a request holds stays well typed.
LEMMA WorkStays ==
    ASSUME NEW w, NEW ids, NEW more, ids \subseteq more, WorkOK(w, ids)
    PROVE  WorkOK(w, more)
    BY DEF WorkOK

\* A request starts with what it has read.
LEMMA StartInv ==
    ASSUME RacesInv, NEW r \in Requests, NEW w, Start(r, w),
           WorkOK(w, OrderIds), TypeOK', lastId' = lastId
    PROVE  RacesInv'
    <1>1. work' = [work EXCEPT ![r] = w] /\ OrderIds' = OrderIds
        BY DEF Start, OrderIds
    <1> QED BY <1>1 DEF RacesInv

\* A request ends, or none does.
LEMMA FinishInv ==
    ASSUME RacesInv, NEW r \in Requests, TypeOK', OrderIds \subseteq OrderIds',
           work' = [work EXCEPT ![r] = NotWorking] \/ work' = work
    PROVE  RacesInv'
    <1>1. work = [q \in Requests |-> work[q]]
        BY DEF RacesInv
    <1>2. \A q \in Requests : WorkOK(work[q], OrderIds')
        BY WorkStays DEF RacesInv
    <1>3. /\ work' = [q \in Requests |-> work'[q]]
          /\ \A q \in Requests : work'[q] = work[q] \/ work'[q] = NotWorking
        BY <1>1
    <1>4. \A q \in Requests : WorkOK(work'[q], OrderIds')
        BY <1>2, <1>3 DEF WorkOK
    <1> QED BY <1>3, <1>4 DEF RacesInv

LEMMA VarsKeepTypes ==
    ASSUME TypeOK, UNCHANGED vars
    PROVE  TypeOK' /\ lastId' = lastId /\ OrderIds' = OrderIds
    BY DEF vars, TypeOK, StoreTypeOK, OrderIds

\* What is read is well typed.
LEMMA ReadOK ==
    ASSUME TypeOK
    PROVE  /\ \A o \in OrderIds, kind \in OrderKinds : \A action :
                 WorkOK(Read(kind, o, action), OrderIds)
           /\ \A u \in Users, c \in Cabinets : WorkOK(ReadUser(u, c), OrderIds)
           /\ \A u \in Users, s \in Slots, reason \in AbnormalReason :
                 WorkOK(ReadFailed(u, s, reason), OrderIds)
           /\ \A s \in Slots : WorkOK(ReadSlot(s), OrderIds)
    <1>1. \A o \in OrderIds, kind \in OrderKinds : \A action :
             WorkOK(Read(kind, o, action), OrderIds)
        BY Kept DEF WorkOK, Read
    <1>2. \A u \in Users, c \in Cabinets : WorkOK(ReadUser(u, c), OrderIds)
        BY Kept DEF WorkOK, ReadUser
    <1>3. \A u \in Users, s \in Slots, reason \in AbnormalReason :
             WorkOK(ReadFailed(u, s, reason), OrderIds)
        BY Kept DEF WorkOK, ReadFailed
    <1>4. ASSUME NEW s \in Slots
          PROVE  WorkOK(ReadSlot(s), OrderIds)
        <2> DEFINE w == ReadSlot(s)
        <2>1. /\ w.kind = "inventory" /\ w.slot = s /\ w.row = slots[s]
              /\ w.status = IF slots[s].battery = NoBattery THEN "none"
                            ELSE batteries[slots[s].battery]
            BY DEF ReadSlot
        <2>2. slots[s] \in SlotRow /\ slots[s].battery \in Batteries \cup {NoBattery}
            BY Kept DEF SlotRow
        <2>3. slots[s].battery # NoBattery => batteries[slots[s].battery] \in BatteryStatus
            BY <2>2, Kept
        <2> HIDE DEF w
        <2>4. WorkOK(w, OrderIds)
            BY <2>1, <2>2, <2>3 DEF WorkOK
        <2> QED BY <2>4 DEF w
    <1> QED BY <1>1, <1>2, <1>3, <1>4

LEMMA BeginInv ==
    ASSUME RacesInv, NEW r \in Requests, Begin(r)
    PROVE  RacesInv'
    <1>0. TypeOK
        BY DEF RacesInv
    <1>1. ASSUME UNCHANGED vars, NEW w, Start(r, w), WorkOK(w, OrderIds)
          PROVE  RacesInv'
        BY <1>0, <1>1, VarsKeepTypes, StartInv
    <1>2. ASSUME NEW b \in Batteries, NEW o \in OrderIds, StartDetect(r, b, o)
          PROVE  RacesInv'
        <2>1. "detect" \in OrderKinds
            BY DEF OrderKinds, Handlers
        <2> QED BY <1>0, <1>1, <1>2, <2>1, ReadOK DEF StartDetect
    <1>3. ASSUME NEW o \in OrderIds,
                 StartManual(r, o) \/ StartLost(r, o) \/ StartDamage(r, o)
                    \/ StartFail(r, o)
          PROVE  RacesInv'
        <2>1. {"manual", "lost", "damage", "fail"} \subseteq OrderKinds
            BY DEF OrderKinds, Handlers
        <2>2. PICK kind \in {"manual", "lost", "damage", "fail"} :
                 Start(r, Read(kind, o, "none")) /\ UNCHANGED vars
            BY <1>3 DEF StartManual, StartLost, StartDamage, StartFail
        <2> QED BY <1>0, <1>1, <2>1, <2>2, ReadOK
    <1>4. ASSUME NEW o \in OrderIds, NEW report \in Reports,
                 NEW aged \in BOOLEAN, NEW expired \in BOOLEAN,
                 StartDecide(r, o, report, aged, expired)
          PROVE  RacesInv'
        <2> DEFINE action == IF expired THEN "manual_review" ELSE Suggested(o, aged)
        <2>1. "decide" \in OrderKinds
            BY DEF OrderKinds, Handlers
        <2>2. /\ pending' \subseteq pending
              /\ UNCHANGED <<storeVars, credited, cabinets, attempted, filed, disputes>>
              /\ Start(r, Read("decide", o, action)) \/ UNCHANGED work
            BY <1>4 DEF StartDecide, Alone
        <2> HIDE DEF action
        <2>3. TypeOK' /\ lastId' = lastId /\ OrderIds' = OrderIds
            BY <1>0, <2>2, Kept, StoreStepType DEF storeVars, OrderIds
        <2>4. WorkOK(Read("decide", o, action), OrderIds)
            BY <1>0, <2>1, ReadOK
        <2> QED BY <2>2, <2>3, <2>4, StartInv, FinishInv
    <1>5. ASSUME NEW o \in OrderIds, NEW action, StartCompensate(r, o, action)
          PROVE  RacesInv'
        <2>1. "compensate" \in OrderKinds
            BY DEF OrderKinds, Handlers
        <2> QED BY <1>0, <1>1, <1>5, <2>1, ReadOK DEF StartCompensate
    <1>6. ASSUME NEW u \in Users, NEW c \in Cabinets, StartRent(r, u, c)
          PROVE  RacesInv'
        BY <1>0, <1>1, <1>6, ReadOK DEF StartRent
    <1>7. ASSUME NEW u \in Users, NEW s \in Slots,
                 NEW reason \in {"cabinet_offline", "unlock_failed"},
                 StartAbnormal(r, u, s, reason)
          PROVE  RacesInv'
        <2>1. reason \in AbnormalReason
            BY DEF AbnormalReason
        <2> QED BY <1>0, <1>1, <1>7, <2>1, ReadOK DEF StartAbnormal
    <1>8. ASSUME NEW s \in Slots, StartInventory(r, s)
          PROVE  RacesInv'
        BY <1>0, <1>1, <1>8, ReadOK DEF StartInventory
    <1> QED BY <1>2, <1>3, <1>4, <1>5, <1>6, <1>7, <1>8 DEF Begin

\* What a request that is at work holds, by its kind.
LEMMA AtWork ==
    ASSUME RacesInv, NEW r \in Requests
    PROVE  /\ work[r].kind \in OrderKinds =>
                 work[r].order \in OrderIds /\ work[r].got \in OrderRow
           /\ work[r].kind = "rent" =>
                 work[r].user \in Users /\ work[r].bal \in Nat
           /\ work[r].kind = "abnormal" =>
                 /\ work[r].user \in Users /\ work[r].slot \in Slots
                 /\ work[r].reason \in AbnormalReason /\ work[r].bal \in Nat
           /\ work[r].kind = "inventory" =>
                 /\ work[r].slot \in Slots /\ work[r].row \in SlotRow
                 /\ work[r].row.battery # NoBattery =>
                       work[r].status \in BatteryStatus
    <1>1. WorkOK(work[r], OrderIds)
        BY DEF RacesInv
    <1> QED BY <1>1 DEF WorkOK, NotWorking, OrderKinds, Handlers

LEMMA OrderKindNames ==
    {"detect", "manual", "lost", "damage", "decide", "compensate", "fail"}
        \subseteq OrderKinds
    BY DEF OrderKinds, Handlers

\* A request that commits and adds no order.
LEMMA EndReturnType ==
    ASSUME RacesInv, NEW r \in Requests, NEW s \in Slots,
           NEW fee \in Fees \cup {0},
           \/ \E suspect \in BOOLEAN : FinishDetect(r, s, fee, suspect)
           \/ FinishManual(r, s, fee)
    PROVE  TypeOK' /\ OrderIds' = OrderIds
    <1> DEFINE w == work[r]
    <1>0. TypeOK /\ slots \in [Slots -> SlotRow] /\ slots[s] \in SlotRow
        BY Kept DEF RacesInv
    <1>1. PICK status \in {"completed", "disputed"}, x \in {0, w.got.exceptionFee} :
             /\ w.kind \in {"detect", "manual"} /\ fee \in FeesOf(w.got)
             /\ ReturnTx(w.order, w.got, fee, status, x)
             /\ UNCHANGED Rest
             /\ \/ slots' = [slots EXCEPT ![s] = [status |-> "occupied",
                                                  battery |-> w.got.battery,
                                                  locked |-> TRUE]]
                \/ slots' = [slots EXCEPT ![s].status = "occupied",
                                          ![s].battery = w.got.battery]
        BY DEF FinishDetect, FinishManual, Finish
    <1>2. w.order \in OrderIds /\ w.got \in OrderRow
        BY <1>1, AtWork, OrderKindNames
    <1>3. /\ fee \in Nat /\ status \in OrderStatus /\ x \in Nat
          /\ w.got.battery \in Batteries
        BY <1>1, <1>2, FeesAreNat DEF OrderStatus, OrderRow
    <1> HIDE DEF w
    <1>4. /\ balance' \in [Users -> Nat]
          /\ orders' \in [OrderIds -> OrderRow]
          /\ ledger' \in [OrderIds -> LedgerRow]
          /\ returned' \subseteq OrderIds
          /\ batteries' \in [Batteries -> BatteryStatus]
          /\ lastId' = lastId
        BY <1>0, <1>1, <1>2, <1>3, StaleReturnType
    <1>5. slots' \in [Slots -> SlotRow]
        <2> DEFINE row1 == [status |-> "occupied", battery |-> w.got.battery,
                            locked |-> TRUE]
                   part == [slots[s] EXCEPT !.status = "occupied"]
                   row2 == [part EXCEPT !.battery = w.got.battery]
        <2>1. row1 \in SlotRow /\ row2 \in SlotRow
            BY <1>0, <1>3 DEF SlotRow, SlotStatus
        <2>2. \/ slots' = [slots EXCEPT ![s] = row1]
              \/ slots' = [slots EXCEPT ![s] = row2]
            BY <1>0, <1>1
        <2> HIDE DEF row1, row2
        <2> QED BY <1>0, <2>1, <2>2
    <1> QED BY <1>0, <1>1, <1>4, <1>5, StoreStepType DEF Rest, OrderIds

LEMMA EndLostType ==
    ASSUME RacesInv, NEW r \in Requests, NEW fee \in Fees \cup {0},
           NEW lostFee \in LostFees, FinishLost(r, fee, lostFee)
    PROVE  TypeOK' /\ OrderIds' = OrderIds
    <1> DEFINE w == work[r]
    <1>0. TypeOK
        BY DEF RacesInv
    <1>1. /\ w.kind = "lost" /\ fee \in FeesOf(w.got)
          /\ LostTx(w.order, w.got, fee, lostFee) /\ UNCHANGED Rest
        BY DEF FinishLost, Finish
    <1>2. w.order \in OrderIds /\ w.got \in OrderRow
        BY <1>1, AtWork, OrderKindNames
    <1>3. /\ fee \in Nat /\ lostFee \in Nat /\ MaxOf(fee, lostFee) \in Nat
          /\ w.got.battery \in Batteries
        BY <1>1, <1>2, FeesAreNat, StoreAssumption DEF MaxOf, OrderRow
    <1> HIDE DEF w
    <1>4. /\ LostRow(w.got, fee, lostFee) \in OrderRow
          /\ CloseDeposit(w.order, w.got, MaxOf(fee, lostFee))
          /\ orders' = [orders EXCEPT ![w.order] = LostRow(w.got, fee, lostFee)]
          /\ batteries' = [batteries EXCEPT ![w.got.battery] = "lost"]
          /\ UNCHANGED <<lastId, returned, slots>>
        BY <1>1, <1>2, <1>3, LostRowFacts DEF LostTx
    <1>5. /\ balance' \in [Users -> Nat] /\ ledger' \in [OrderIds -> LedgerRow]
          /\ orders' \in [OrderIds -> OrderRow]
        BY <1>0, <1>2, <1>3, <1>4, StaleCloseType, OrderRewritten
    <1>6. batteries' \in [Batteries -> BatteryStatus]
        BY <1>0, <1>3, <1>4, Kept DEF BatteryStatus
    <1> QED BY <1>0, <1>1, <1>4, <1>5, <1>6, Kept, StoreStepType
            DEF Rest, OrderIds

LEMMA EndDamageType ==
    ASSUME RacesInv, NEW r \in Requests, NEW damageFee \in DamageFees,
           FinishDamage(r, damageFee)
    PROVE  TypeOK' /\ OrderIds' = OrderIds
    <1> DEFINE w == work[r]
    <1>0. TypeOK
        BY DEF RacesInv
    <1>1. /\ w.kind = "damage" /\ DamageTx(w.order, w.got, damageFee)
          /\ UNCHANGED Rest
        BY DEF FinishDamage, Finish
    <1>2. /\ w.order \in OrderIds /\ w.got \in OrderRow
          /\ w.got.battery \in Batteries /\ damageFee \in Nat
        BY <1>1, AtWork, OrderKindNames, StoreAssumption DEF OrderRow
    <1> HIDE DEF w
    <1>3. orders' \in [OrderIds -> OrderRow]
        BY <1>0, <1>1, <1>2, DamagedRowFacts, OrderRewritten DEF DamageTx
    <1>4. batteries' \in [Batteries -> BatteryStatus]
        BY <1>0, <1>1, <1>2, Kept DEF DamageTx, BatteryStatus
    <1> QED BY <1>0, <1>1, <1>3, <1>4, Kept, StoreStepType
            DEF DamageTx, Rest, OrderIds

LEMMA EndDecisionType ==
    ASSUME RacesInv, NEW r \in Requests, NEW kind \in {"decide", "compensate"},
           FinishDecision(r, kind)
    PROVE  TypeOK' /\ OrderIds' = OrderIds
    <1> DEFINE w == work[r]
               new == DecidedRow(orders[w.order], Decision(w))
    <1>0. TypeOK
        BY DEF RacesInv
    <1>1. /\ w.kind = kind
          /\ CloseDeposit(w.order, w.got, 0) \/ UNCHANGED <<balance, ledger>>
          /\ orders' = [orders EXCEPT ![w.order] = new]
          /\ UNCHANGED <<lastId, returned, slots, batteries>>
          /\ UNCHANGED Rest
        BY <1>0, Kept DEF FinishDecision, Finish
    <1>2. w.order \in OrderIds /\ w.got \in OrderRow
        BY <1>1, AtWork, OrderKindNames
    <1>3. new \in OrderRow
        BY <1>0, <1>2, Kept, DecisionType, DecidedType
    <1> HIDE DEF w, new
    <1>4. orders' \in [OrderIds -> OrderRow]
        BY <1>0, <1>1, <1>2, <1>3, OrderRewritten
    <1>5. balance' \in [Users -> Nat] /\ ledger' \in [OrderIds -> LedgerRow]
        BY <1>0, <1>1, <1>2, StaleCloseType, Kept
    <1> QED BY <1>0, <1>1, <1>4, <1>5, Kept, StoreStepType DEF Rest, OrderIds

LEMMA EndFailType ==
    ASSUME RacesInv, NEW r \in Requests, FinishFail(r)
    PROVE  TypeOK' /\ OrderIds' = OrderIds
    <1> DEFINE o == work[r].order
    <1>0. TypeOK
        BY DEF RacesInv
    <1>1. /\ work[r].kind = "fail"
          /\ orders' = [orders EXCEPT ![o] = AbnormalRow(orders[o])]
          /\ UNCHANGED <<balance, lastId, ledger, returned, slots, batteries>>
          /\ UNCHANGED Rest
        BY <1>0, Kept DEF FinishFail, Finish
    <1>2. o \in OrderIds
        BY <1>1, AtWork, OrderKindNames
    <1> HIDE DEF o
    <1>3. orders' \in [OrderIds -> OrderRow]
        BY <1>0, <1>1, <1>2, Kept, AbnormalRowFacts, OrderRewritten
    <1> QED BY <1>0, <1>1, <1>3, Kept, StoreStepType DEF Rest, OrderIds

LEMMA EndInventoryType ==
    ASSUME RacesInv, NEW r \in Requests, FinishInventory(r)
    PROVE  TypeOK' /\ OrderIds' = OrderIds
    <1> DEFINE w == work[r]
               b == w.row.battery
               row == [status |-> IF w.row.status = "unlocking"
                                  THEN slots[w.slot].status
                                  ELSE IF b = NoBattery THEN "empty"
                                  ELSE "occupied",
                       battery |-> b, locked |-> w.row.locked]
    <1>0. TypeOK
        BY DEF RacesInv
    <1>1. /\ w.kind = "inventory"
          /\ batteries' = IF b = NoBattery THEN batteries
                          ELSE [batteries EXCEPT ![b] = w.status]
          /\ slots' = [slots EXCEPT ![w.slot] = row]
          /\ UNCHANGED <<balance, lastId, orders, ledger, returned>>
          /\ UNCHANGED Rest
        BY <1>0, Kept DEF FinishInventory, Finish
    <1>2. /\ w.slot \in Slots /\ w.row \in SlotRow
          /\ b \in Batteries \cup {NoBattery} /\ w.row.locked \in BOOLEAN
          /\ b # NoBattery => w.status \in BatteryStatus
        BY <1>1, AtWork DEF SlotRow
    <1> HIDE DEF w, b
    <1>3. slots[w.slot].status \in SlotStatus
        BY <1>0, <1>2, Kept DEF SlotRow
    <1>4. row \in SlotRow
        BY <1>2, <1>3 DEF SlotRow, SlotStatus
    <1> HIDE DEF row
    <1>5. slots' \in [Slots -> SlotRow]
        BY <1>0, <1>1, <1>2, <1>4, Kept
    <1>6. batteries' \in [Batteries -> BatteryStatus]
        BY <1>0, <1>1, <1>2, Kept
    <1> QED BY <1>0, <1>1, <1>5, <1>6, Kept, StoreStepType DEF Rest, OrderIds

\* A rental or an abnormal order opened from a user read earlier.
LEMMA EndRentType ==
    ASSUME RacesInv, NEW r \in Requests, NEW s \in Slots, FinishRent(r, s)
    PROVE  /\ TypeOK' /\ OrderIds \subseteq OrderIds'
           /\ \A o \in OrderIds' : o \notin OrderIds => o = lastId'
           /\ \A o \in OrderIds : orders'[o] = orders[o]
           /\ orders'[lastId'] = NewOrder(work[r].user, slots[s].battery, s,
                                          "renting", "none")
    <1> DEFINE w == work[r]
               b == slots[s].battery
    <1>0. TypeOK /\ slots[s] \in SlotRow
        BY Kept DEF RacesInv
    <1>1. /\ w.kind = "rent" /\ ScanOutcome(s, TRUE) = "rentable"
          /\ w.bal >= DepositFor(w.user)
          /\ InsertOrder(NewOrder(w.user, b, s, "renting", "none"), w.bal)
          /\ slots' = [slots EXCEPT ![s].status = "unlocking"]
          /\ batteries' = [batteries EXCEPT ![b] = "in_use"]
          /\ attempted' = attempted \cup {s}
          /\ UNCHANGED <<returned, credited, cabinets, pending, filed, disputes>>
        BY DEF FinishRent, Finish
    <1>2. b \in Batteries
        BY <1>0, <1>1 DEF ScanOutcome, SlotRow
    <1>3. w.user \in Users /\ w.bal \in Nat
        BY <1>1, AtWork
    <1> HIDE DEF w, b
    <1>4. "renting" \in OrderStatus /\ "none" \in AbnormalReason
        BY DEF OrderStatus, AbnormalReason
    <1>5. /\ lastId' \in Nat
          /\ OrderIds \subseteq OrderIds'
          /\ \A o \in OrderIds' : o \notin OrderIds => o = lastId'
          /\ balance' \in [Users -> Nat]
          /\ orders' \in [OrderIds' -> OrderRow]
          /\ ledger' \in [OrderIds' -> LedgerRow]
          /\ \A o \in OrderIds : orders'[o] = orders[o]
          /\ orders'[lastId'] = NewOrder(w.user, b, s, "renting", "none")
        BY <1>0, <1>1, <1>2, <1>3, <1>4, StaleInsertType
    <1>6. slots' \in [Slots -> SlotRow] /\ batteries' \in [Batteries -> BatteryStatus]
        BY <1>0, <1>1, <1>2, Kept DEF SlotRow, SlotStatus, BatteryStatus
    <1>7. /\ returned' \subseteq OrderIds'
          /\ pending' \subseteq (OrderIds' \X Reports)
          /\ filed' \in Nat
          /\ disputes' \in [1..filed' -> OrderIds' \cup {0}]
        BY <1>0, <1>1, <1>5, MoreOrders
    <1>8. /\ credited' \in [Users -> Nat] /\ cabinets' \in [Cabinets -> CabinetStatus]
          /\ attempted' \subseteq Slots
        BY <1>0, <1>1 DEF TypeOK
    <1>9. TypeOK'
        BY <1>5, <1>6, <1>7, <1>8 DEF TypeOK, StoreTypeOK
    <1> QED BY <1>5, <1>9 DEF w, b

LEMMA EndAbnormalType ==
    ASSUME RacesInv, NEW r \in Requests, FinishAbnormal(r)
    PROVE  /\ TypeOK' /\ OrderIds \subseteq OrderIds'
           /\ \A o \in OrderIds' : o \notin OrderIds => o = lastId'
           /\ \A o \in OrderIds : orders'[o] = orders[o]
           /\ orders'[lastId'].status = "abnormal"
    <1> DEFINE w == work[r]
               b == slots[w.slot].battery
    <1>0. TypeOK
        BY DEF RacesInv
    <1>1. /\ w.kind = "abnormal" /\ b # NoBattery
          /\ w.bal >= DepositFor(w.user)
          /\ InsertOrder(NewOrder(w.user, b, w.slot, "abnormal", w.reason), w.bal)
          /\ attempted' = attempted \cup {w.slot}
          /\ UNCHANGED <<returned, slots, batteries, credited, cabinets, pending,
                         filed, disputes>>
        BY DEF FinishAbnormal, Finish
    <1>2. /\ w.user \in Users /\ w.slot \in Slots
          /\ w.reason \in AbnormalReason /\ w.bal \in Nat
        BY <1>1, AtWork
    <1>3. b \in Batteries
        BY <1>0, <1>1, <1>2, Kept DEF SlotRow
    <1> HIDE DEF w, b
    <1>4. "abnormal" \in OrderStatus
        BY DEF OrderStatus
    <1>5. /\ lastId' \in Nat
          /\ OrderIds \subseteq OrderIds'
          /\ \A o \in OrderIds' : o \notin OrderIds => o = lastId'
          /\ balance' \in [Users -> Nat]
          /\ orders' \in [OrderIds' -> OrderRow]
          /\ ledger' \in [OrderIds' -> LedgerRow]
          /\ \A o \in OrderIds : orders'[o] = orders[o]
          /\ orders'[lastId'] = NewOrder(w.user, b, w.slot, "abnormal", w.reason)
        BY <1>0, <1>1, <1>2, <1>3, <1>4, StaleInsertType
    <1>6. slots' \in [Slots -> SlotRow] /\ batteries' \in [Batteries -> BatteryStatus]
        BY <1>0, <1>1, Kept
    <1>7. /\ returned' \subseteq OrderIds'
          /\ pending' \subseteq (OrderIds' \X Reports)
          /\ filed' \in Nat
          /\ disputes' \in [1..filed' -> OrderIds' \cup {0}]
        BY <1>0, <1>1, <1>5, MoreOrders
    <1>8. /\ credited' \in [Users -> Nat] /\ cabinets' \in [Cabinets -> CabinetStatus]
          /\ attempted' \subseteq Slots
        BY <1>0, <1>1, <1>2 DEF TypeOK
    <1>9. TypeOK'
        BY <1>5, <1>6, <1>7, <1>8 DEF TypeOK, StoreTypeOK
    <1>10. orders'[lastId'].status = "abnormal"
        BY <1>5 DEF NewOrder
    <1> QED BY <1>5, <1>9, <1>10

LEMMA EndInv ==
    ASSUME RacesInv, NEW r \in Requests, End(r)
    PROVE  RacesInv'
    <1>1. work' = [work EXCEPT ![r] = NotWorking]
        BY DEF End, FinishDetect, FinishManual, FinishLost, FinishDamage,
               FinishDecision, FinishFail, FinishRent, FinishAbnormal,
               FinishInventory, GiveUp, Finish
    <1>2. TypeOK' /\ OrderIds \subseteq OrderIds'
        <2>1. CASE GiveUp(r)
            BY <2>1, VarsKeepTypes DEF GiveUp, RacesInv
        <2> QED BY <2>1, EndReturnType, EndLostType, EndDamageType,
                   EndDecisionType, EndFailType, EndRentType, EndAbnormalType,
                   EndInventoryType DEF End
    <1> QED BY <1>1, <1>2, FinishInv

\* An order added by a scan of user u: one that has failed, or a rental of a
\* battery that was in the cabinet.
Added(u) ==
    /\ Active(u) = {}
    /\ OrderIds \subseteq OrderIds' /\ lastId' \notin OrderIds
    /\ \A o \in OrderIds' : o \notin OrderIds => o = lastId'
    /\ \A o \in OrderIds : orders'[o] = orders[o]
    /\ orders'[lastId'].user = u
    /\ \/ orders'[lastId'].status = "abnormal" /\ batteries' = batteries
       \/ \E b \in Batteries :
             /\ batteries[b] = "in_cabinet" /\ orders'[lastId'].battery = b
             /\ batteries' = [batteries EXCEPT ![b] = "in_use"]

\* A scan as one step: it leaves the orders alone, or adds one.
LEMMA ScanOrders ==
    ASSUME TypeOK, Scan
    PROVE  /\ returned' = returned
           /\ \/ OrderIds' = OrderIds /\ orders' = orders /\ batteries' = batteries
              \/ \E u \in Users : Added(u)
    <1> PICK u \in Users, c \in Cabinets, req \in Slots \cup {0} :
            \/ ScanFindsCabinetSilent(u, c, req)
            \/ \E s \in Slots :
                  \/ ScanAndRent(u, c, req, s)
                  \/ \E silent \in BOOLEAN : ScanCabinetDown(u, c, req, s, silent)
                  \/ \E charged \in BOOLEAN : ScanSlotFailed(u, c, req, s, charged)
                  \/ \E charged, silent \in BOOLEAN :
                        ScanBatteryUnusable(u, c, req, s, charged, silent)
        BY DEF Scan
    <1>0. StoreTypeOK /\ lastId \in Nat /\ lastId + 1 \notin OrderIds
        BY DEF TypeOK, StoreTypeOK, OrderIds
    <1>1. ASSUME CanAfford(u), NEW b \in Batteries, NEW s \in Slots,
                 NEW status \in OrderStatus, NEW reason \in AbnormalReason,
                 InsertOrder(NewOrder(u, b, s, status, reason), balance[u])
          PROVE  /\ OrderIds \subseteq OrderIds' /\ lastId' \notin OrderIds
                 /\ \A o \in OrderIds' : o \notin OrderIds => o = lastId'
                 /\ \A o \in OrderIds : orders'[o] = orders[o]
                 /\ orders'[lastId'].user = u /\ orders'[lastId'].battery = b
                 /\ orders'[lastId'].status = status
        <2>1. LET row == NewOrder(u, b, s, status, reason)
              IN  row.user = u /\ row.battery = b /\ row.status = status
            BY DEF NewOrder
        <2> QED BY <1>0, <1>1, <2>1, InsertFacts
    <1>2. ASSUME NEW s \in Slots, NEW reason \in AbnormalReason, Active(u) = {},
                 OpenAbnormal(u, s, reason), batteries' = batteries
          PROVE  Added(u)
        <2>1. "abnormal" \in OrderStatus
            BY DEF OrderStatus
        <2> QED BY <1>1, <1>2, <2>1, AbnormalIsInsert DEF Added
    <1>3. ASSUME NEW s \in Slots, ScanAndRent(u, c, req, s)
          PROVE  Added(u) /\ returned' = returned
        <2>1. slots[s] \in SlotRow
            BY Kept
        <2>2. slots[s].battery \in Batteries /\ batteries[slots[s].battery] = "in_cabinet"
            BY <1>3, <2>1 DEF ScanAndRent, ScanOutcome, SlotRow
        <2>3. "renting" \in OrderStatus /\ "none" \in AbnormalReason
            BY DEF OrderStatus, AbnormalReason
        <2>4. /\ Active(u) = {} /\ CanAfford(u) /\ returned' = returned
              /\ InsertOrder(NewOrder(u, slots[s].battery, s, "renting", "none"),
                             balance[u])
              /\ batteries' = [batteries EXCEPT ![slots[s].battery] = "in_use"]
            BY <1>3 DEF ScanAndRent
        <2> QED BY <1>1, <2>2, <2>3, <2>4 DEF Added
    <1>4. {"cabinet_offline", "unlock_failed"} \subseteq AbnormalReason
        BY DEF AbnormalReason
    <1>5. CASE ScanFindsCabinetSilent(u, c, req)
        BY <1>5 DEF ScanFindsCabinetSilent, OrderIds
    <1>6. ASSUME NEW s \in Slots, NEW silent \in BOOLEAN,
                 ScanCabinetDown(u, c, req, s, silent)
          PROVE  /\ Active(u) = {} /\ OpenAbnormal(u, s, "cabinet_offline")
                 /\ UNCHANGED <<batteries, returned>>
        BY <1>6 DEF ScanCabinetDown
    <1>7. ASSUME NEW s \in Slots, NEW charged \in BOOLEAN,
                 ScanSlotFailed(u, c, req, s, charged)
          PROVE  /\ Active(u) = {} /\ OpenAbnormal(u, s, "unlock_failed")
                 /\ UNCHANGED <<batteries, returned>>
        BY <1>7 DEF ScanSlotFailed
    <1>8. ASSUME NEW s \in Slots, NEW charged \in BOOLEAN, NEW silent \in BOOLEAN,
                 ScanBatteryUnusable(u, c, req, s, charged, silent)
          PROVE  /\ UNCHANGED <<batteries, returned>>
                 /\ \/ Active(u) = {} /\ OpenAbnormal(u, s, "unlock_failed")
                    \/ OrderIds' = OrderIds /\ orders' = orders
        BY <1>8 DEF ScanBatteryUnusable, OrderIds
    <1> QED BY <1>2, <1>3, <1>4, <1>5, <1>6, <1>7, <1>8

LEMMA ScanAddsOrders ==
    ASSUME TypeOK, Scan
    PROVE  OrderIds \subseteq OrderIds'
    BY ScanOrders DEF Added

\* A top-up, a report, a dispute as one step.
LEMMA AloneType ==
    ASSUME TypeOK,
           \/ \E u \in Users, amount \in TopUps : TopUp(u, amount)
           \/ Reported \/ Disputed
    PROVE  TypeOK' /\ OrderIds' = OrderIds
    <1>1. Common
        BY DEF Common, Reported, Report, Disputed, Operate
    <1>2. TypeOK'
        BY <1>1, TypeStep DEF Next
    <1>3. lastId' = lastId
        BY DEF TopUp, Reported, LockReportOpened, CabinetRecovered, Disputed,
               CreateDispute, HandleDispute
    <1> QED BY <1>2, <1>3 DEF OrderIds

LEMMA RacesStep == RacesInv /\ [RacesNext]_raceVars => RacesInv'
    <1> SUFFICES ASSUME RacesInv, [RacesNext]_raceVars PROVE RacesInv'
        OBVIOUS
    <1>0. TypeOK /\ work = [r \in Requests |-> work[r]]
        BY DEF RacesInv
    <1>1. ASSUME work' = work, TypeOK', OrderIds \subseteq OrderIds'
          PROVE  RacesInv'
        BY <1>1, WorkStays DEF RacesInv
    <1>2. ASSUME NEW r \in Requests, Begin(r) \/ End(r)
          PROVE  RacesInv'
        BY <1>2, BeginInv, EndInv
    <1>3. CASE /\ work' = work
               /\ \/ \E u \in Users, amount \in TopUps : TopUp(u, amount)
                  \/ Reported \/ Disputed
        BY <1>0, <1>1, <1>3, AloneType
    <1>4. CASE work' = work /\ Scan
        <2>1. TypeOK'
            BY <1>0, <1>4, ScanType
        <2> QED BY <1>0, <1>1, <1>4, <2>1, ScanAddsOrders
    <1>5. CASE UNCHANGED raceVars
        <2>1. UNCHANGED vars /\ work' = work
            BY <1>5 DEF raceVars
        <2> QED BY <1>0, <1>1, <2>1, VarsKeepTypes
    <1> QED BY <1>2, <1>3, <1>4, <1>5 DEF RacesNext, Alone

LEMMA RacesStart == RacesInit => RacesInv
    <1> SUFFICES ASSUME RacesInit PROVE RacesInv
        OBVIOUS
    <1>1. TypeOK
        BY InitType DEF RacesInit
    <1> QED BY <1>1 DEF RacesInit, RacesInv, WorkOK

\* Whatever overlaps and whichever locks expire, every table, and what every
\* request has read, stays well typed: no balance is written below zero, no
\* record of a deposit gets a negative amount.
THEOREM RacesTypesHold == RacesSpec => []RacesTypeOK
    <1>1. RacesInv => RacesTypeOK
        <2> SUFFICES ASSUME RacesInv PROVE RacesTypeOK
            OBVIOUS
        <2>1. \A r \in Requests : WorkOK(work[r], OrderIds)
            BY DEF RacesInv
        <2> QED BY <2>1 DEF RacesInv, RacesTypeOK, WorkOK, OrderKinds
    <1> QED BY <1>1, RacesStart, RacesStep, PTL DEF RacesSpec

-----------------------------------------------------------------------------
(* A user's second rental was recreated *)

\* A rental no compensation has opened.
Plain(row) == row.status = "renting" /\ row.comp # 1

\* A request whose commit may write such a rental back, as it was read.
Restores(w) == w.kind \in {"damage", "decide"} /\ Plain(w.got)

\* The lock of the scans outlives its holder; and a scan does not overlap a
\* damage report or the decision of a device report, nor a scan in one step a
\* scan in two (which that lock would keep apart).
ScansApart ==
    /\ "user_rent" \notin Expiring
    /\ \A F \in Families :
          {"rent", "scan"} \cap F # {} => F \cap {"damage", "decide"} = {}
    /\ \A F \in Families : ~({"rent", "scan"} \subseteq F)

\* The order a request has read belongs to the user it still belongs to, and
\* was in a state the handler accepts.
ReadRight(w) ==
    w.kind \in OrderKinds =>
        /\ w.got.user = orders[w.order].user
        /\ w.kind = "decide" => w.got.comp # 1
        /\ w.kind = "compensate" => w.got.status = "abnormal"

\* Nobody works next to a handler it does not overlap.
Together ==
    \A r, q \in Requests :
        \/ r = q \/ work[r].kind = "idle" \/ work[q].kind = "idle"
        \/ \E F \in Families : {work[r].kind, work[q].kind} \subseteq F

\* A plain rental, one that a request may write back, and one that a scan is
\* about to open: a user has one of them at most.
OnePlain ==
    \A o, p \in OrderIds :
        Plain(orders[o]) /\ Plain(orders[p]) /\ orders[o].user = orders[p].user
            => o = p

RestoredOne ==
    \A r \in Requests, p \in OrderIds :
        Restores(work[r]) /\ Plain(orders[p]) /\ orders[p].user = work[r].got.user
            => p = work[r].order

RestoredOnce ==
    \A r, q \in Requests :
        /\ Restores(work[r]) /\ Restores(work[q])
        /\ work[r].got.user = work[q].got.user
        => work[r].order = work[q].order

ScanFirst ==
    \A r \in Requests, p \in OrderIds :
        work[r].kind = "rent" /\ Plain(orders[p])
            => orders[p].user # work[r].user

ScanOnce ==
    \A r, q \in Requests :
        work[r].kind = "rent" /\ work[q].kind = "rent" /\ r # q
            => work[r].user # work[q].user

UsersInv ==
    /\ \A r \in Requests : ReadRight(work[r])
    /\ Together /\ OnePlain
    /\ RestoredOne /\ RestoredOnce
    /\ ScanFirst /\ ScanOnce

\* Requests only end.
WorkEnds == \A q \in Requests : work'[q] = work[q] \/ work'[q] = NotWorking

\* A commit after which nobody has a plain rental he did not have before.
LEMMA NoNewRental ==
    ASSUME RacesInv, UsersInv, WorkEnds, OrderIds \subseteq OrderIds',
           \A o \in OrderIds : /\ orders'[o].user = orders[o].user
                               /\ Plain(orders'[o]) => Plain(orders[o]),
           \A o \in OrderIds' : o \notin OrderIds => ~Plain(orders'[o])
    PROVE  UsersInv'
    <1>0. \A r \in Requests : work[r].kind \in OrderKinds => work[r].order \in OrderIds
        BY AtWork
    <1>1. \A q \in Requests : work'[q].kind # "idle" => work'[q] = work[q]
        BY DEF WorkEnds, NotWorking
    <1>2. {"damage", "decide"} \subseteq OrderKinds /\ "idle" \notin OrderKinds
        BY DEF OrderKinds, Handlers
    <1>3. \A q \in Requests : ReadRight(work[q])'
        BY <1>0, <1>1, <1>2 DEF UsersInv, ReadRight
    <1>4. Together'
        BY <1>1 DEF UsersInv, Together
    <1>5. OnePlain'
        BY DEF UsersInv, OnePlain
    <1>6. \A q \in Requests : Restores(work[q])' => work'[q] = work[q] /\ Restores(work[q])
        BY <1>1 DEF Restores
    <1>7. RestoredOne'
        BY <1>6 DEF UsersInv, RestoredOne
    <1>8. RestoredOnce'
        BY <1>6 DEF UsersInv, RestoredOnce
    <1>9. ScanFirst' /\ ScanOnce'
        BY <1>1 DEF UsersInv, ScanFirst, ScanOnce
    <1> QED BY <1>3, <1>4, <1>5, <1>7, <1>8, <1>9 DEF UsersInv

\* A request writes back the plain rental it has read, or may.
LEMMA RentalRestored ==
    ASSUME RacesInv, UsersInv, ScansApart, WorkEnds, OrderIds' = OrderIds,
           NEW r \in Requests, Restores(work[r]),
           \A p \in OrderIds : /\ orders'[p].user = orders[p].user
                               /\ p # work[r].order => orders'[p] = orders[p]
    PROVE  UsersInv'
    <1> DEFINE o == work[r].order
    <1>0. {"damage", "decide"} \subseteq OrderKinds /\ "idle" \notin OrderKinds
        BY DEF OrderKinds, Handlers
    <1>1. /\ \A q \in Requests : work[q].kind \in OrderKinds => work[q].order \in OrderIds
          /\ o \in OrderIds /\ work[r].got.user = orders[o].user
        BY <1>0, AtWork DEF Restores, UsersInv, ReadRight
    <1>2. \A q \in Requests : work'[q].kind # "idle" => work'[q] = work[q]
        BY DEF WorkEnds, NotWorking
    <1>3. \A q \in Requests : ReadRight(work[q])'
        BY <1>0, <1>1, <1>2 DEF UsersInv, ReadRight
    <1>4. Together'
        BY <1>2 DEF UsersInv, Together
    <1>5. \A p \in OrderIds : Plain(orders[p]) /\ orders[p].user = orders[o].user => p = o
        BY <1>1 DEF UsersInv, RestoredOne
    <1>6. OnePlain'
        BY <1>1, <1>5 DEF UsersInv, OnePlain
    <1>7. \A q \in Requests : Restores(work[q])' => work'[q] = work[q] /\ Restores(work[q])
        BY <1>0, <1>2 DEF Restores
    <1>8. \A q \in Requests : Restores(work[q]) /\ work[q].got.user = orders[o].user
                              => work[q].order = o
        BY <1>1 DEF UsersInv, RestoredOnce
    <1>9. RestoredOne'
        BY <1>1, <1>7, <1>8 DEF UsersInv, RestoredOne
    <1>10. RestoredOnce'
        BY <1>7 DEF UsersInv, RestoredOnce
    <1>11. \A q \in Requests : work[q].kind # "rent"
        <2> SUFFICES ASSUME NEW q \in Requests, work[q].kind = "rent" PROVE FALSE
            OBVIOUS
        <2>1. work[r].kind \in {"damage", "decide"} /\ q # r
            BY DEF Restores
        <2>2. PICK F \in Families : {work[q].kind, work[r].kind} \subseteq F
            BY <2>1 DEF UsersInv, Together
        <2>3. {"rent", "scan"} \cap F # {} /\ F \cap {"damage", "decide"} # {}
            BY <2>1, <2>2
        <2> QED BY <2>3 DEF ScansApart
    <1>12. ScanFirst' /\ ScanOnce'
        BY <1>2, <1>11 DEF ScanFirst, ScanOnce
    <1> QED BY <1>3, <1>4, <1>6, <1>9, <1>10, <1>12 DEF UsersInv

\* A scan adds an order of a user who has no plain rental, and whom no other
\* request is about to give one.
LEMMA RentalOpened ==
    ASSUME RacesInv, UsersInv, WorkEnds, NEW u, OrderIds \subseteq OrderIds',
           \A o \in OrderIds' : o \notin OrderIds => o = lastId',
           \A o \in OrderIds : orders'[o] = orders[o],
           orders'[lastId'].user = u,
           \A p \in OrderIds : Plain(orders[p]) => orders[p].user # u,
           \A q \in Requests : ~Restores(work'[q]),
           \A q \in Requests : work'[q].kind = "rent" => work'[q].user # u
    PROVE  UsersInv'
    <1>0. "idle" \notin OrderKinds
        BY DEF OrderKinds, Handlers
    <1>1. \A q \in Requests : work[q].kind \in OrderKinds => work[q].order \in OrderIds
        BY AtWork
    <1>2. \A q \in Requests : work'[q].kind # "idle" => work'[q] = work[q]
        BY DEF WorkEnds, NotWorking
    <1>3. \A q \in Requests : ReadRight(work[q])'
        BY <1>0, <1>1, <1>2 DEF UsersInv, ReadRight
    <1>4. Together'
        BY <1>2 DEF UsersInv, Together
    <1>5. OnePlain'
        BY DEF UsersInv, OnePlain
    <1>6. RestoredOne' /\ RestoredOnce'
        BY DEF RestoredOne, RestoredOnce
    <1>7. ScanFirst'
        BY <1>2 DEF UsersInv, ScanFirst
    <1>8. ScanOnce'
        BY <1>2 DEF UsersInv, ScanOnce
    <1> QED BY <1>3, <1>4, <1>5, <1>6, <1>7, <1>8 DEF UsersInv

\* A request starts: what it has read is right, a rental it may write back is
\* in the table, and a scan has found its user without a rental, under the
\* lock.
LEMMA WorkStarts ==
    ASSUME RacesInv, UsersInv, NEW r \in Requests, NEW w, Start(r, w),
           OrderIds' = OrderIds, orders' = orders,
           ReadRight(w),
           Restores(w) => w.order \in OrderIds /\ w.got = orders[w.order],
           w.kind = "rent" =>
              /\ \A p \in OrderIds : Plain(orders[p]) => orders[p].user # w.user
              /\ \A q \in Requests : work[q].kind = "rent" => work[q].user # w.user
    PROVE  UsersInv'
    <1>0. work = [q \in Requests |-> work[q]]
        BY DEF RacesInv
    <1>1. /\ work[r].kind = "idle" /\ work'[r] = w
          /\ \A q \in Requests : q # r => work'[q] = work[q]
          /\ \A q \in Requests : \/ work[q].kind = "idle"
                                 \/ \E F \in Families : {w.kind, work[q].kind} \subseteq F
        BY <1>0 DEF Start, MayOverlap
    <1>2. \A q \in Requests : ReadRight(work[q])'
        BY <1>1 DEF UsersInv, ReadRight
    <1>3. Together'
        BY <1>1 DEF UsersInv, Together
    <1>4. OnePlain'
        BY DEF UsersInv, OnePlain
    <1>5. Restores(w) => /\ w.order \in OrderIds /\ Plain(orders[w.order])
                         /\ w.got.user = orders[w.order].user
        BY DEF Restores
    <1>6. \A q \in Requests :
             Restores(work[q])' => \/ q = r /\ Restores(w)
                                   \/ q # r /\ Restores(work[q])
        BY <1>1 DEF Restores
    <1>7. RestoredOne'
        BY <1>1, <1>5, <1>6 DEF UsersInv, RestoredOne, OnePlain
    <1>8. RestoredOnce'
        BY <1>1, <1>5, <1>6 DEF UsersInv, RestoredOnce, RestoredOne
    <1>9. ScanFirst' /\ ScanOnce'
        BY <1>1 DEF UsersInv, ScanFirst, ScanOnce
    <1> QED BY <1>2, <1>3, <1>4, <1>7, <1>8, <1>9 DEF UsersInv

\* What each request that starts has read.
LEMMA BeginUsers ==
    ASSUME RacesInv, UsersInv, ScansApart, NEW r \in Requests, Begin(r)
    PROVE  UsersInv'
    <1>0. TypeOK
        BY DEF RacesInv
    <1>1. ASSUME NEW o \in OrderIds, NEW kind \in OrderKinds, NEW action,
                 Start(r, Read(kind, o, action)), orders' = orders, lastId' = lastId,
                 kind = "decide" => orders[o].comp # 1,
                 kind = "compensate" => orders[o].status = "abnormal"
          PROVE  UsersInv'
        <2> DEFINE w == Read(kind, o, action)
        <2>1. w.kind = kind /\ w.order = o /\ w.got = orders[o]
            BY DEF Read
        <2>2. kind # "rent" /\ OrderIds' = OrderIds
            BY <1>1 DEF OrderKinds, OrderIds
        <2>3. Start(r, w)
            BY <1>1
        <2> HIDE DEF w
        <2>4. ReadRight(w)
            BY <1>1, <2>1 DEF ReadRight
        <2>5. Restores(w) => w.order \in OrderIds /\ w.got = orders[w.order]
            BY <2>1
        <2> QED BY <1>1, <2>1, <2>2, <2>3, <2>4, <2>5, WorkStarts
    <1>2. ASSUME UNCHANGED vars, NEW w, Start(r, w),
                 w.kind \in {"abnormal", "inventory"}
          PROVE  UsersInv'
        <2>1. orders' = orders /\ OrderIds' = OrderIds
            BY <1>2 DEF vars, OrderIds
        <2>2. w.kind # "rent" /\ ~Restores(w) /\ ReadRight(w)
            BY <1>2 DEF Restores, ReadRight, OrderKinds
        <2> QED BY <1>2, <2>1, <2>2, WorkStarts
    <1>3. ASSUME NEW o \in OrderIds,
                 \/ \E b \in Batteries : StartDetect(r, b, o)
                 \/ StartManual(r, o) \/ StartLost(r, o)
                 \/ StartDamage(r, o) \/ StartFail(r, o)
          PROVE  UsersInv'
        <2>1. PICK kind \in {"detect", "manual", "lost", "damage", "fail"} :
                 Start(r, Read(kind, o, "none")) /\ UNCHANGED vars
            BY <1>3 DEF StartDetect, StartManual, StartLost, StartDamage, StartFail
        <2>2. kind \in OrderKinds /\ kind # "decide" /\ kind # "compensate"
            BY OrderKindNames
        <2>3. orders' = orders /\ lastId' = lastId
            BY <2>1 DEF vars
        <2> QED BY <1>1, <2>1, <2>2, <2>3
    <1>4. ASSUME NEW o \in OrderIds, NEW report \in Reports,
                 NEW aged \in BOOLEAN, NEW expired \in BOOLEAN,
                 StartDecide(r, o, report, aged, expired)
          PROVE  UsersInv'
        <2> DEFINE action == IF expired THEN "manual_review" ELSE Suggested(o, aged)
        <2>1. /\ orders' = orders /\ lastId' = lastId
              /\ \/ Start(r, Read("decide", o, action)) /\ orders[o].comp # 1
                 \/ work' = work
            BY <1>4 DEF StartDecide, Alone, storeVars
        <2> HIDE DEF action
        <2>2. CASE work' = work
            <3>1. WorkEnds /\ OrderIds' = OrderIds
                BY <2>1, <2>2 DEF WorkEnds, OrderIds
            <3> QED BY <2>1, <3>1, NoNewRental
        <2>3. CASE Start(r, Read("decide", o, action)) /\ orders[o].comp # 1
            <3>1. "decide" \in OrderKinds
                BY OrderKindNames
            <3> QED BY <1>1, <2>1, <2>3, <3>1
        <2> QED BY <2>1, <2>2, <2>3
    <1>5. ASSUME NEW o \in OrderIds, NEW action, StartCompensate(r, o, action)
          PROVE  UsersInv'
        <2>1. /\ Start(r, Read("compensate", o, action))
              /\ orders[o].status = "abnormal"
              /\ orders' = orders /\ lastId' = lastId
            BY <1>5 DEF StartCompensate, vars
        <2>2. "compensate" \in OrderKinds
            BY OrderKindNames
        <2> QED BY <1>1, <2>1, <2>2
    <1>6. ASSUME NEW u \in Users, NEW c \in Cabinets, StartRent(r, u, c)
          PROVE  UsersInv'
        <2> DEFINE w == ReadUser(u, c)
        <2>1. w.kind = "rent" /\ w.user = u
            BY DEF ReadUser
        <2>2. /\ LockFree("user_rent", u) /\ Active(u) = {} /\ Start(r, w)
              /\ orders' = orders /\ OrderIds' = OrderIds
            BY <1>6 DEF StartRent, vars, OrderIds
        <2> HIDE DEF w
        <2>3. \A p \in OrderIds : Plain(orders[p]) => orders[p].user # u
            BY <2>2 DEF Active, Plain
        <2>4. \A q \in Requests : work[q].kind = "rent" => work[q].user # u
            <3> SUFFICES ASSUME NEW q \in Requests, work[q].kind = "rent"
                         PROVE  work[q].user # u
                OBVIOUS
            <3>1. LockOf(work[q]) = <<"user_rent", work[q].user>>
                BY DEF LockOf
            <3> QED BY <2>2, <3>1 DEF LockFree, ScansApart
        <2>5. ReadRight(w) /\ ~Restores(w)
            BY <2>1 DEF ReadRight, Restores, OrderKinds
        <2> QED BY <2>1, <2>2, <2>3, <2>4, <2>5, WorkStarts
    <1>7. ASSUME NEW u \in Users, NEW s \in Slots, NEW reason,
                 StartAbnormal(r, u, s, reason)
          PROVE  UsersInv'
        <2>1. ReadFailed(u, s, reason).kind = "abnormal"
            BY DEF ReadFailed
        <2> QED BY <1>2, <1>7, <2>1 DEF StartAbnormal
    <1>8. ASSUME NEW s \in Slots, StartInventory(r, s)
          PROVE  UsersInv'
        <2>1. ReadSlot(s).kind = "inventory"
            BY DEF ReadSlot
        <2> QED BY <1>2, <1>8, <2>1 DEF StartInventory
    <1> QED BY <1>3, <1>4, <1>5, <1>6, <1>7, <1>8 DEF Begin

\* Over a row of the same user, a commit writes one that no plain rental has.
LEMMA RowWritten ==
    ASSUME RacesInv, UsersInv, WorkEnds, NEW o \in OrderIds, NEW row \in OrderRow,
           orders' = [orders EXCEPT ![o] = row], OrderIds' = OrderIds,
           row.user = orders[o].user, Plain(row) => Plain(orders[o])
    PROVE  UsersInv'
    <1>1. TypeOK
        BY DEF RacesInv
    <1>2. /\ orders'[o] = row
          /\ \A p \in OrderIds : p # o => orders'[p] = orders[p]
        BY <1>1, OrderRewritten
    <1> QED BY <1>2, NoNewRental

\* The same for a row that a request may write back.
LEMMA RowRestored ==
    ASSUME RacesInv, UsersInv, ScansApart, WorkEnds, NEW r \in Requests,
           Restores(work[r]), NEW row \in OrderRow,
           orders' = [orders EXCEPT ![work[r].order] = row], OrderIds' = OrderIds,
           row.user = orders[work[r].order].user
    PROVE  UsersInv'
    <1>0. {"damage", "decide"} \subseteq OrderKinds
        BY OrderKindNames
    <1>1. TypeOK /\ work[r].order \in OrderIds
        BY <1>0, AtWork DEF RacesInv, Restores
    <1>2. /\ orders'[work[r].order] = row
          /\ \A p \in OrderIds : p # work[r].order => orders'[p] = orders[p]
        BY <1>1, OrderRewritten
    <1>3. \A p \in OrderIds : /\ orders'[p].user = orders[p].user
                              /\ p # work[r].order => orders'[p] = orders[p]
        BY <1>2
    <1> QED BY <1>3, RentalRestored

\* What a decision writes is a plain rental only if the decision may write
\* one back.
LEMMA DecisionPlain ==
    ASSUME NEW w, w.got \in OrderRow, w.kind \in {"decide", "compensate"},
           w.kind = "decide" => w.got.comp # 1,
           w.kind = "compensate" => w.got.status = "abnormal",
           Plain(Decision(w))
    PROVE  Restores(w)
    <1>1. CASE w.action = "refund_deposit"
        BY <1>1, RefundedRowFacts DEF Decision, Plain
    <1>2. CASE w.action = "manual_review"
        BY <1>2, DecidedRowFacts DEF Decision, Plain, Restores
    <1>3. CASE w.action \notin {"refund_deposit", "manual_review"}
        BY <1>3, DecidedRowFacts, RecreatedRowFacts
           DEF Decision, TriedRow, Plain, Restores
    <1> QED BY <1>1, <1>2, <1>3

LEMMA EndUsers ==
    ASSUME RacesInv, UsersInv, ScansApart, NEW r \in Requests, End(r)
    PROVE  UsersInv'
    <1> DEFINE w == work[r]
               o == w.order
    <1>0. /\ TypeOK /\ work = [q \in Requests |-> work[q]]
          /\ "idle" \notin OrderKinds
        BY DEF RacesInv, OrderKinds, Handlers
    <1>1. work' = [work EXCEPT ![r] = NotWorking]
        BY DEF End, FinishDetect, FinishManual, FinishLost, FinishDamage,
               FinishDecision, FinishFail, FinishRent, FinishAbnormal,
               FinishInventory, GiveUp, Finish
    <1>2. WorkEnds /\ work'[r] = NotWorking
        BY <1>0, <1>1 DEF WorkEnds
    <1>3. w.kind \in OrderKinds =>
             /\ o \in OrderIds /\ w.got \in OrderRow /\ orders[o] \in OrderRow
             /\ w.got.user = orders[o].user
        BY <1>0, AtWork, Kept DEF UsersInv, ReadRight
    <1> HIDE DEF w, o
    <1>4. ASSUME NEW s \in Slots, NEW fee \in Fees \cup {0},
                 \/ \E suspect \in BOOLEAN : FinishDetect(r, s, fee, suspect)
                 \/ FinishManual(r, s, fee)
          PROVE  UsersInv'
        <2>1. PICK status \in {"completed", "disputed"}, x \in {0, w.got.exceptionFee} :
                 /\ w.kind \in {"detect", "manual"} /\ fee \in FeesOf(w.got)
                 /\ ReturnTx(o, w.got, fee, status, x)
            BY <1>4 DEF FinishDetect, FinishManual, Finish, w, o
        <2>2. o \in OrderIds /\ w.got \in OrderRow /\ w.got.user = orders[o].user
            BY <1>3, <2>1, OrderKindNames
        <2>3. /\ fee \in Nat /\ status \in OrderStatus /\ x \in Nat
            BY <2>1, <2>2, FeesAreNat DEF OrderStatus, OrderRow
        <2> DEFINE row == ReturnedRow(w.got, fee, status, x)
        <2>4. row \in OrderRow /\ row.user = w.got.user /\ row.status = status
            BY <2>2, <2>3, ReturnedRowFacts
        <2>5. orders' = [orders EXCEPT ![o] = row] /\ OrderIds' = OrderIds
            BY <2>1 DEF ReturnTx, OrderIds
        <2> HIDE DEF row
        <2>6. ~Plain(row)
            BY <2>1, <2>4 DEF Plain
        <2> QED BY <1>2, <2>2, <2>4, <2>5, <2>6, RowWritten
    <1>5. ASSUME NEW fee \in Fees \cup {0}, NEW lostFee \in LostFees,
                 FinishLost(r, fee, lostFee)
          PROVE  UsersInv'
        <2>1. w.kind = "lost" /\ fee \in FeesOf(w.got) /\ LostTx(o, w.got, fee, lostFee)
            BY <1>5 DEF FinishLost, Finish, w, o
        <2>2. o \in OrderIds /\ w.got \in OrderRow /\ w.got.user = orders[o].user
            BY <1>3, <2>1, OrderKindNames
        <2>3. fee \in Nat /\ lostFee \in Nat
            BY <2>1, FeesAreNat, StoreAssumption
        <2> DEFINE row == LostRow(w.got, fee, lostFee)
        <2>4. row \in OrderRow /\ row.user = w.got.user /\ row.status = "lost"
            BY <2>2, <2>3, LostRowFacts
        <2>5. orders' = [orders EXCEPT ![o] = row] /\ OrderIds' = OrderIds
            BY <2>1 DEF LostTx, OrderIds
        <2> HIDE DEF row
        <2>6. ~Plain(row)
            BY <2>4 DEF Plain
        <2> QED BY <1>2, <2>2, <2>4, <2>5, <2>6, RowWritten
    <1>6. ASSUME NEW damageFee \in DamageFees, FinishDamage(r, damageFee)
          PROVE  UsersInv'
        <2>1. w.kind = "damage" /\ DamageTx(o, w.got, damageFee)
            BY <1>6 DEF FinishDamage, Finish, w, o
        <2>2. o \in OrderIds /\ w.got \in OrderRow /\ w.got.user = orders[o].user
            BY <1>3, <2>1, OrderKindNames
        <2>3. damageFee \in Nat
            BY StoreAssumption
        <2> DEFINE row == DamagedRow(w.got, damageFee)
        <2>4. /\ row \in OrderRow /\ row.user = w.got.user
              /\ row.status = w.got.status /\ row.comp = w.got.comp
            BY <2>2, <2>3, DamagedRowFacts
        <2>5. orders' = [orders EXCEPT ![o] = row] /\ OrderIds' = OrderIds
            BY <2>1 DEF DamageTx, OrderIds
        <2> HIDE DEF row
        <2>6. CASE ~Plain(row)
            BY <1>2, <2>2, <2>4, <2>5, <2>6, RowWritten
        <2>7. CASE Plain(row)
            <3>1. Restores(w)
                BY <2>1, <2>4, <2>7 DEF Plain, Restores
            <3> QED BY <1>2, <2>2, <2>4, <2>5, <3>1, RowRestored DEF w, o
        <2> QED BY <2>6, <2>7
    <1>7. ASSUME NEW kind \in {"decide", "compensate"}, FinishDecision(r, kind)
          PROVE  UsersInv'
        <2> DEFINE aim == Decision(w)
                   row == DecidedRow(orders[o], aim)
        <2>1. w.kind = kind /\ orders' = [orders EXCEPT ![o] = row] /\ lastId' = lastId
            BY <1>0, <1>7, Kept DEF FinishDecision, Finish, w, o
        <2>2. /\ o \in OrderIds /\ w.got \in OrderRow /\ orders[o] \in OrderRow
            BY <1>3, <2>1, OrderKindNames
        <2>3. aim \in OrderRow
            BY <1>0, <2>2, DecisionType
        <2>4. ReadRight(w) /\ w.kind \in OrderKinds
            BY <2>1, OrderKindNames DEF UsersInv, w
        <2>5. Plain(aim) => Restores(w)
            BY <2>1, <2>2, <2>4, DecisionPlain DEF ReadRight
        <2> HIDE DEF aim
        <2>6. /\ row \in OrderRow /\ row.user = orders[o].user
              /\ row.status = aim.status /\ row.comp = aim.comp
            BY <2>2, <2>3, DecidedType
        <2> HIDE DEF row
        <2>7. Plain(row) => Restores(w)
            BY <2>5, <2>6 DEF Plain
        <2>8. OrderIds' = OrderIds
            BY <2>1 DEF OrderIds
        <2>9. CASE ~Plain(row)
            BY <1>2, <2>1, <2>2, <2>6, <2>8, <2>9, RowWritten
        <2>10. CASE Plain(row)
            BY <1>2, <2>1, <2>2, <2>6, <2>7, <2>8, <2>10, RowRestored DEF w, o
        <2> QED BY <2>9, <2>10
    <1>8. CASE FinishFail(r)
        <2> DEFINE row == AbnormalRow(orders[o])
        <2>1. w.kind = "fail" /\ orders' = [orders EXCEPT ![o] = row] /\ lastId' = lastId
            BY <1>0, <1>8, Kept DEF FinishFail, Finish, w, o
        <2>2. o \in OrderIds /\ orders[o] \in OrderRow
            BY <1>3, <2>1, OrderKindNames
        <2>3. row \in OrderRow /\ row.user = orders[o].user /\ row.status = "abnormal"
            BY <2>2, AbnormalRowFacts
        <2> HIDE DEF row
        <2>4. ~Plain(row) /\ OrderIds' = OrderIds
            BY <2>1, <2>3 DEF Plain, OrderIds
        <2> QED BY <1>2, <2>1, <2>2, <2>3, <2>4, RowWritten
    <1>9. ASSUME NEW s \in Slots, FinishRent(r, s)
          PROVE  UsersInv'
        <2>1. w.kind = "rent"
            BY <1>9 DEF FinishRent, Finish, w
        <2>2. /\ OrderIds \subseteq OrderIds'
              /\ \A p \in OrderIds' : p \notin OrderIds => p = lastId'
              /\ \A p \in OrderIds : orders'[p] = orders[p]
              /\ orders'[lastId'].user = w.user
            <3>1. orders'[lastId'] = NewOrder(w.user, slots[s].battery, s,
                                              "renting", "none")
                BY <1>9, EndRentType DEF w
            <3>2. orders'[lastId'].user = w.user
                BY <3>1 DEF NewOrder
            <3> QED BY <1>9, <3>2, EndRentType
        <2>3. \A p \in OrderIds : Plain(orders[p]) => orders[p].user # w.user
            BY <2>1 DEF UsersInv, ScanFirst, w
        <2>4. \A q \in Requests : q # r => work'[q] = work[q]
            BY <1>0, <1>1
        <2>5. \A q \in Requests : ~Restores(work'[q])
            <3> SUFFICES ASSUME NEW q \in Requests, Restores(work'[q]) PROVE FALSE
                OBVIOUS
            <3>1. work'[q].kind \in {"damage", "decide"}
                BY DEF Restores
            <3>2. q # r
                BY <1>2, <3>1 DEF NotWorking
            <3>3. work[q].kind \in {"damage", "decide"} /\ work[r].kind = "rent"
                BY <2>1, <2>4, <3>1, <3>2 DEF w
            <3>4. PICK F \in Families : {work[q].kind, work[r].kind} \subseteq F
                BY <3>2, <3>3 DEF UsersInv, Together
            <3>5. {"rent", "scan"} \cap F # {} /\ F \cap {"damage", "decide"} # {}
                BY <3>3, <3>4
            <3> QED BY <3>5 DEF ScansApart
        <2>6. \A q \in Requests : work'[q].kind = "rent" => work'[q].user # w.user
            BY <1>2, <2>1, <2>4 DEF UsersInv, ScanOnce, NotWorking, w
        <2> QED BY <1>2, <2>2, <2>3, <2>5, <2>6, RentalOpened
    <1>10. CASE FinishAbnormal(r)
        <2>1. /\ OrderIds \subseteq OrderIds'
              /\ \A p \in OrderIds' : p \notin OrderIds => p = lastId'
              /\ \A p \in OrderIds : orders'[p] = orders[p]
              /\ orders'[lastId'].status = "abnormal"
            BY <1>10, EndAbnormalType
        <2> QED BY <1>2, <2>1, NoNewRental DEF Plain
    <1>11. CASE FinishInventory(r) \/ GiveUp(r)
        <2>1. orders' = orders /\ OrderIds' = OrderIds
            BY <1>11 DEF FinishInventory, GiveUp, vars, OrderIds
        <2> QED BY <1>2, <2>1, NoNewRental
    <1> QED BY <1>4, <1>5, <1>6, <1>7, <1>8, <1>9, <1>10, <1>11 DEF End

\* The handlers that are one step here.
LEMMA AloneUsers ==
    ASSUME RacesInv, UsersInv, ScansApart, work' = work,
           \/ \E u \in Users, amount \in TopUps : TopUp(u, amount)
           \/ MayOverlap("scan") /\ Scan
           \/ Reported \/ Disputed
    PROVE  UsersInv'
    <1>0. TypeOK /\ WorkEnds
        BY DEF RacesInv, WorkEnds
    <1>1. ASSUME orders' = orders, OrderIds' = OrderIds
          PROVE  UsersInv'
        BY <1>0, <1>1, NoNewRental
    <1>2. CASE \/ \E u \in Users, amount \in TopUps : TopUp(u, amount)
               \/ Reported
        <2>1. orders' = orders /\ OrderIds' = OrderIds
            BY <1>2 DEF TopUp, Reported, LockReportOpened, CabinetRecovered, OrderIds
        <2> QED BY <1>1, <2>1
    <1>3. ASSUME NEW o \in OrderIds, CreateDispute(o)
          PROVE  UsersInv'
        <2> DEFINE row == DisputedRow(orders[o])
        <2>1. orders' = [orders EXCEPT ![o] = row] /\ OrderIds' = OrderIds
            BY <1>3 DEF CreateDispute, OrderIds
        <2>2. row \in OrderRow /\ row.user = orders[o].user /\ row.status = "disputed"
            BY <1>0, Kept, DisputedRowFacts
        <2> HIDE DEF row
        <2>3. ~Plain(row)
            BY <2>2 DEF Plain
        <2> QED BY <1>0, <2>1, <2>2, <2>3, RowWritten
    <1>4. ASSUME NEW d \in 1..filed, NEW refund \in Refunds,
                 NEW adjust \in Fees \cup {0}, HandleDispute(d, adjust, refund)
          PROVE  UsersInv'
        <2> DEFINE o == disputes[d]
                   row == AdjustedRow(orders[o], adjust, refund)
        <2>1. /\ o # 0 /\ orders' = [orders EXCEPT ![o] = row]
              /\ OrderIds' = OrderIds
            BY <1>4 DEF HandleDispute, OrderIds
        <2>2. o \in OrderIds
            BY <1>0, <2>1 DEF TypeOK
        <2>3. refund \in Nat /\ adjust \in Nat
            BY StoreAssumption, LifecycleAssumption
        <2>4. /\ row \in OrderRow /\ row.user = orders[o].user
              /\ row.status = orders[o].status /\ row.comp = orders[o].comp
            <3>1. orders[o] \in OrderRow
                BY <1>0, <2>2, Kept
            <3> HIDE DEF o
            <3> QED BY <3>1, <2>3, AdjustedRowFacts
        <2> HIDE DEF row, o
        <2>5. Plain(row) => Plain(orders[o])
            BY <2>4 DEF Plain
        <2> QED BY <1>0, <2>1, <2>2, <2>4, <2>5, RowWritten
    <1>5. CASE MayOverlap("scan") /\ Scan
        <2>1. CASE OrderIds' = OrderIds /\ orders' = orders
            BY <1>1, <2>1
        <2>2. ASSUME NEW u \in Users, Added(u)
              PROVE  UsersInv'
            <3>1. \A p \in OrderIds : Plain(orders[p]) => orders[p].user # u
                BY <2>2 DEF Added, Active, Plain
            <3>2. \A q \in Requests : work[q].kind \notin {"rent", "damage", "decide"}
                <4> SUFFICES ASSUME NEW q \in Requests,
                                    work[q].kind \in {"rent", "damage", "decide"}
                             PROVE  FALSE
                    OBVIOUS
                <4>1. PICK F \in Families : {"scan", work[q].kind} \subseteq F
                    BY <1>5 DEF MayOverlap
                <4>2. /\ {"rent", "scan"} \cap F # {}
                      /\ {"rent", "scan"} \subseteq F \/ F \cap {"damage", "decide"} # {}
                    BY <4>1
                <4> QED BY <4>2 DEF ScansApart
            <3>3. \A q \in Requests : ~Restores(work'[q]) /\ work'[q].kind # "rent"
                BY <3>2 DEF Restores
            <3> QED BY <1>0, <2>2, <3>1, <3>3, RentalOpened DEF Added
        <2> QED BY <1>0, <1>5, <2>1, <2>2, ScanOrders
    <1> QED BY <1>2, <1>3, <1>4, <1>5 DEF Disputed

LEMMA UsersStep ==
    ASSUME ScansApart
    PROVE  RacesInv /\ UsersInv /\ [RacesNext]_raceVars => UsersInv'
    <1> SUFFICES ASSUME RacesInv, UsersInv, [RacesNext]_raceVars PROVE UsersInv'
        OBVIOUS
    <1>1. ASSUME NEW r \in Requests, Begin(r) \/ End(r)
          PROVE  UsersInv'
        BY <1>1, BeginUsers, EndUsers
    <1>2. CASE /\ work' = work
               /\ \/ \E u \in Users, amount \in TopUps : TopUp(u, amount)
                  \/ MayOverlap("scan") /\ Scan
                  \/ Reported \/ Disputed
        BY <1>2, AloneUsers
    <1>3. CASE UNCHANGED raceVars
        <2>1. orders' = orders /\ OrderIds' = OrderIds /\ WorkEnds
            BY <1>3 DEF raceVars, vars, OrderIds, WorkEnds
        <2> QED BY <2>1, NoNewRental
    <1> QED BY <1>1, <1>2, <1>3 DEF RacesNext, Alone

LEMMA UsersStart == RacesInit => UsersInv
    <1> SUFFICES ASSUME RacesInit PROVE UsersInv
        OBVIOUS
    <1>1. /\ OrderIds = {}
          /\ \A r \in Requests : work[r].kind = "idle"
        BY DEF RacesInit, Init, OrderIds, NotWorking
    <1> QED BY <1>1 DEF UsersInv, ReadRight, OrderKinds, Handlers, Together,
                        OnePlain, RestoredOne, RestoredOnce, Restores,
                        ScanFirst, ScanOnce

\* Scans of a user exclude each other from the moment they look for his
\* rental until they commit: if he has two rentals, a compensation has
\* recreated one.  Returns, losses, unlocking failures, operators'
\* compensations, disputes, top-ups and inventories may overlap the scans.
THEOREM SecondRentalsAreRecreated ==
    ASSUME ScansApart
    PROVE  RacesSpec => []SecondRentalWasRecreated
    <1>1. UsersInv => SecondRentalWasRecreated
        BY DEF UsersInv, OnePlain, Plain, SecondRentalWasRecreated, Renting
    <1>2. RacesInv /\ UsersInv /\ [RacesNext]_raceVars => RacesInv' /\ UsersInv'
        BY RacesStep, UsersStep
    <1>3. RacesInit => RacesInv /\ UsersInv
        BY RacesStart, UsersStart
    <1> QED BY <1>1, <1>2, <1>3, PTL DEF RacesSpec

-----------------------------------------------------------------------------
(* A battery is not sold while it is rented *)

\* No abnormal order is recreated; no inventory, which writes the status of a
\* battery back as it was read, overlaps a scan; and no damage report, which
\* writes a rental back, overlaps a return.
BatteriesApart ==
    /\ Kinds \cap {"decide", "compensate"} = {}
    /\ \A F \in Families :
          /\ "inventory" \in F => F \cap {"rent", "scan"} = {}
          /\ "damage" \in F => F \cap {"detect", "manual"} = {}

\* A request that will return the battery of a rental, or may write the rental
\* back: until the return is recorded, the battery is its own.
Holds(w) ==
    /\ w.kind \in {"detect", "manual", "damage"}
    /\ w.got.status = "renting" /\ w.order \notin returned

\* An inventory that found a battery in the cabinet.
Counted(w, b) == w.kind = "inventory" /\ w.row.battery = b /\ w.status = "in_cabinet"

\* The order a request has read is for the battery it is still for; a return
\* has read a rental; it is nobody's decision; and a damage report sees no
\* return go by.
BatteryRead(w) ==
    /\ w.kind \notin {"decide", "compensate"}
    /\ w.kind \in {"detect", "manual"} => w.got.status = "renting"
    /\ w.kind \in OrderKinds => w.got.battery = orders[w.order].battery
    /\ w.kind = "damage" /\ w.got.status = "renting" => w.order \notin returned

OneRental ==
    \A o, p \in OrderIds :
        Renting(o) /\ Renting(p) /\ orders[o].battery = orders[p].battery => o = p

RentedIsOut ==
    \A o \in OrderIds :
        Renting(o) => o \notin returned /\ batteries[orders[o].battery] # "in_cabinet"

HeldIsOut ==
    \A r \in Requests :
        Holds(work[r]) =>
            /\ batteries[work[r].got.battery] # "in_cabinet"
            /\ \A p \in OrderIds :
                  Renting(p) /\ orders[p].battery = work[r].got.battery
                      => p = work[r].order

HeldOnce ==
    \A r, q \in Requests :
        /\ Holds(work[r]) /\ Holds(work[q])
        /\ work[r].got.battery = work[q].got.battery
        => work[r].order = work[q].order

CountedIsIn ==
    \A q \in Requests, b \in Batteries :
        Counted(work[q], b) =>
            /\ \A p \in OrderIds : Renting(p) => orders[p].battery # b
            /\ \A r \in Requests : Holds(work[r]) => work[r].got.battery # b

SalesInv ==
    /\ \A r \in Requests : BatteryRead(work[r])
    /\ Together /\ OneRental /\ RentedIsOut
    /\ HeldIsOut /\ HeldOnce /\ CountedIsIn

\* What SalesInv needs of requests that only end.
LEMMA EndsRead ==
    ASSUME RacesInv, SalesInv, WorkEnds, returned \subseteq returned',
           \A o \in OrderIds : orders'[o].battery = orders[o].battery,
           \A r \in Requests : Holds(work[r]) /\ work'[r] = work[r]
                               /\ work[r].kind = "damage"
                                  => work[r].order \notin returned'
    PROVE  /\ \A r \in Requests : BatteryRead(work[r])'
           /\ Together'
           /\ \A r \in Requests : Holds(work[r])' => work'[r] = work[r] /\ Holds(work[r])
           /\ \A r \in Requests : \A b : Counted(work[r], b)' =>
                 work'[r] = work[r] /\ Counted(work[r], b)
           /\ \A r \in Requests : Holds(work[r]) =>
                 /\ work[r].order \in OrderIds /\ work[r].got.battery \in Batteries
                 /\ work[r].got.battery = orders[work[r].order].battery
    <1>0. "idle" \notin OrderKinds /\ {"detect", "manual", "damage"} \subseteq OrderKinds
        BY DEF OrderKinds, Handlers
    <1>1. \A q \in Requests : work'[q].kind # "idle" => work'[q] = work[q]
        BY DEF WorkEnds, NotWorking
    <1>2. \A q \in Requests : work[q].kind \in OrderKinds =>
             work[q].order \in OrderIds /\ work[q].got \in OrderRow
        BY AtWork
    <1>3. \A r \in Requests : Holds(work[r])' => work'[r] = work[r] /\ Holds(work[r])
        BY <1>1 DEF Holds
    <1>4. \A r \in Requests : \A b : Counted(work[r], b)' =>
             work'[r] = work[r] /\ Counted(work[r], b)
        BY <1>1 DEF Counted
    <1>5. \A r \in Requests : BatteryRead(work[r])'
        <2> SUFFICES ASSUME NEW r \in Requests PROVE BatteryRead(work[r])'
            OBVIOUS
        <2>1. CASE work'[r].kind = "idle"
            BY <1>0, <2>1 DEF BatteryRead
        <2>2. CASE work'[r].kind # "idle"
            <3>1. work'[r] = work[r] /\ BatteryRead(work[r])
                BY <1>1, <2>2 DEF SalesInv
            <3>2. work[r].kind = "damage" /\ work[r].got.status = "renting"
                     => work[r].order \notin returned'
                BY <3>1 DEF BatteryRead, Holds
            <3> QED BY <1>2, <3>1, <3>2 DEF BatteryRead
        <2> QED BY <2>1, <2>2
    <1>6. Together'
        BY <1>1 DEF SalesInv, Together
    <1>7. \A r \in Requests : Holds(work[r]) =>
             /\ work[r].order \in OrderIds /\ work[r].got.battery \in Batteries
             /\ work[r].got.battery = orders[work[r].order].battery
        BY <1>0, <1>2 DEF Holds, SalesInv, BatteryRead, OrderRow
    <1> QED BY <1>3, <1>4, <1>5, <1>6, <1>7

\* A commit that starts no rental and puts no battery into a cabinet.
LEMMA NothingSold ==
    ASSUME RacesInv, SalesInv, WorkEnds, OrderIds \subseteq OrderIds',
           returned' = returned,
           \A o \in OrderIds : /\ orders'[o].battery = orders[o].battery
                               /\ Renting(o)' => Renting(o),
           \A o \in OrderIds' : o \notin OrderIds => ~Renting(o)',
           \A b \in Batteries : batteries'[b] = "in_cabinet" => batteries[b] = "in_cabinet"
    PROVE  SalesInv'
    <1>0. \A r \in Requests : Holds(work[r]) => work[r].order \notin returned'
        BY DEF Holds
    <1>1. /\ \A r \in Requests : BatteryRead(work[r])'
          /\ Together'
          /\ \A r \in Requests : Holds(work[r])' => work'[r] = work[r] /\ Holds(work[r])
          /\ \A r \in Requests : \A b : Counted(work[r], b)' =>
                work'[r] = work[r] /\ Counted(work[r], b)
          /\ \A r \in Requests : Holds(work[r]) => work[r].got.battery \in Batteries
        BY <1>0, EndsRead
    <1>2. \A o \in OrderIds : orders[o].battery \in Batteries
        BY Kept DEF RacesInv
    <1>3. OneRental'
        BY DEF SalesInv, OneRental
    <1>4. RentedIsOut'
        BY <1>2 DEF SalesInv, RentedIsOut
    <1>5. HeldIsOut'
        BY <1>1 DEF SalesInv, HeldIsOut
    <1>6. HeldOnce'
        BY <1>1 DEF SalesInv, HeldOnce
    <1>7. CountedIsIn'
        BY <1>1 DEF SalesInv, CountedIsIn
    <1> QED BY <1>1, <1>3, <1>4, <1>5, <1>6, <1>7 DEF SalesInv

\* A return that commits: its battery is in the cabinet, and its order rents
\* no more.
LEMMA BatteryReturned ==
    ASSUME RacesInv, SalesInv, BatteriesApart, WorkEnds, OrderIds' = OrderIds,
           NEW r \in Requests, Holds(work[r]), work[r].kind \in {"detect", "manual"},
           returned' = returned \cup {work[r].order},
           \A o \in OrderIds : /\ orders'[o].battery = orders[o].battery
                               /\ o # work[r].order => orders'[o] = orders[o],
           orders'[work[r].order].status # "renting",
           batteries' = [batteries EXCEPT ![work[r].got.battery] = "in_cabinet"]
    PROVE  SalesInv'
    <1> DEFINE o == work[r].order
               b == work[r].got.battery
    <1>0. \A q \in Requests : work[q].kind # "damage"
        <2> SUFFICES ASSUME NEW q \in Requests, work[q].kind = "damage" PROVE FALSE
            OBVIOUS
        <2>1. PICK F \in Families : {work[q].kind, work[r].kind} \subseteq F
            BY DEF SalesInv, Together
        <2>2. "damage" \in F /\ F \cap {"detect", "manual"} # {}
            BY <2>1
        <2> QED BY <2>2 DEF BatteriesApart
    <1>1. /\ \A q \in Requests : BatteryRead(work[q])'
          /\ Together'
          /\ \A q \in Requests : Holds(work[q])' => work'[q] = work[q] /\ Holds(work[q])
          /\ \A q \in Requests : \A c : Counted(work[q], c)' =>
                work'[q] = work[q] /\ Counted(work[q], c)
          /\ \A q \in Requests : Holds(work[q]) => work[q].got.battery \in Batteries
        BY <1>0, EndsRead
    <1>2. \A p \in OrderIds : orders[p].battery \in Batteries
        BY Kept DEF RacesInv
    <1>3. batteries \in [Batteries -> BatteryStatus] /\ b \in Batteries
        BY <1>1, Kept DEF RacesInv
    <1>4. \A p \in OrderIds : Renting(p)' => /\ Renting(p) /\ p # o
                                             /\ orders'[p].battery = orders[p].battery
        BY DEF Renting
    <1>5. \A p \in OrderIds : Renting(p) /\ p # o => orders[p].battery # b
        BY DEF SalesInv, HeldIsOut
    <1>6. OneRental'
        BY <1>4 DEF SalesInv, OneRental
    <1>7. RentedIsOut'
        BY <1>2, <1>3, <1>4, <1>5 DEF SalesInv, RentedIsOut
    <1>8. \A q \in Requests : Holds(work[q])' => work[q].order # o
        BY <1>1 DEF Holds
    <1>9. \A q \in Requests : Holds(work[q])' => work[q].got.battery # b
        BY <1>1, <1>8 DEF SalesInv, HeldOnce
    <1>10. HeldIsOut'
        BY <1>1, <1>3, <1>4, <1>9 DEF SalesInv, HeldIsOut
    <1>11. HeldOnce'
        BY <1>1 DEF SalesInv, HeldOnce
    <1>12. CountedIsIn'
        <2> SUFFICES ASSUME NEW q \in Requests, NEW c \in Batteries,
                            Counted(work[q], c)'
                     PROVE  /\ \A p \in OrderIds' : Renting(p)' => orders'[p].battery # c
                            /\ \A t \in Requests : Holds(work[t])'
                                                   => work'[t].got.battery # c
            BY DEF CountedIsIn
        <2>1. Counted(work[q], c)
            BY <1>1
        <2>2. /\ \A p \in OrderIds : Renting(p) => orders[p].battery # c
              /\ \A t \in Requests : Holds(work[t]) => work[t].got.battery # c
            BY <2>1 DEF SalesInv, CountedIsIn
        <2> QED BY <1>1, <1>4, <2>2
    <1> QED BY <1>1, <1>6, <1>7, <1>10, <1>11, <1>12 DEF SalesInv

\* A damage report that writes its rental back, or may.
LEMMA RentalKept ==
    ASSUME RacesInv, SalesInv, WorkEnds, OrderIds' = OrderIds,
           NEW r \in Requests, Holds(work[r]), work[r].kind = "damage",
           returned' = returned,
           \A o \in OrderIds : /\ orders'[o].battery = orders[o].battery
                               /\ o # work[r].order => orders'[o] = orders[o],
           \A b \in Batteries : batteries'[b] = "in_cabinet" => batteries[b] = "in_cabinet"
    PROVE  SalesInv'
    <1> DEFINE o == work[r].order
               b == work[r].got.battery
    <1>1. \A q \in Requests : Holds(work[q]) => work[q].order \notin returned'
        BY DEF Holds
    <1>2. /\ \A q \in Requests : BatteryRead(work[q])'
          /\ Together'
          /\ \A q \in Requests : Holds(work[q])' => work'[q] = work[q] /\ Holds(work[q])
          /\ \A q \in Requests : \A c : Counted(work[q], c)' =>
                work'[q] = work[q] /\ Counted(work[q], c)
          /\ \A q \in Requests : Holds(work[q]) =>
                /\ work[q].order \in OrderIds /\ work[q].got.battery \in Batteries
                /\ work[q].got.battery = orders[work[q].order].battery
        BY <1>1, EndsRead
    <1>3. \A p \in OrderIds : orders[p].battery \in Batteries
        BY Kept DEF RacesInv
    <1>4. o \in OrderIds /\ orders[o].battery = b /\ o \notin returned
        BY <1>2 DEF Holds
    <1>5. \A p \in OrderIds : Renting(p)' => Renting(p) \/ p = o
        BY DEF Renting
    <1>6. \A p \in OrderIds : Renting(p) /\ orders[p].battery = b => p = o
        BY DEF SalesInv, HeldIsOut
    <1>7. OneRental'
        BY <1>4, <1>5, <1>6 DEF SalesInv, OneRental
    <1>8. batteries[b] # "in_cabinet"
        BY DEF SalesInv, HeldIsOut
    <1>9. RentedIsOut'
        BY <1>3, <1>4, <1>5, <1>8 DEF SalesInv, RentedIsOut
    <1>10. \A q \in Requests : Holds(work[q]) /\ work[q].got.battery = b => work[q].order = o
        BY DEF SalesInv, HeldOnce
    <1>11. HeldIsOut'
        BY <1>2, <1>4, <1>5, <1>10 DEF SalesInv, HeldIsOut
    <1>12. HeldOnce'
        BY <1>2 DEF SalesInv, HeldOnce
    <1>13. CountedIsIn'
        <2> SUFFICES ASSUME NEW q \in Requests, NEW c \in Batteries,
                            Counted(work[q], c)'
                     PROVE  /\ \A p \in OrderIds' : Renting(p)' => orders'[p].battery # c
                            /\ \A t \in Requests : Holds(work[t])'
                                                   => work'[t].got.battery # c
            BY DEF CountedIsIn
        <2>1. Counted(work[q], c)
            BY <1>2
        <2>2. /\ \A p \in OrderIds : Renting(p) => orders[p].battery # c
              /\ \A t \in Requests : Holds(work[t]) => work[t].got.battery # c
            BY <2>1 DEF SalesInv, CountedIsIn
        <2>3. b # c
            BY <2>2
        <2> QED BY <1>2, <1>4, <1>5, <2>2, <2>3
    <1> QED BY <1>2, <1>7, <1>9, <1>11, <1>12, <1>13 DEF SalesInv

\* A battery that was in a cabinet is sold.
LEMMA BatterySold ==
    ASSUME RacesInv, SalesInv, WorkEnds, OrderIds \subseteq OrderIds',
           returned' = returned,
           lastId' \notin OrderIds,
           \A o \in OrderIds' : o \notin OrderIds => o = lastId',
           \A o \in OrderIds : orders'[o] = orders[o],
           NEW b \in Batteries, batteries[b] = "in_cabinet",
           orders'[lastId'].battery = b,
           batteries' = [batteries EXCEPT ![b] = "in_use"],
           \A q \in Requests : work'[q].kind # "inventory"
    PROVE  SalesInv'
    <1>1. \A q \in Requests : Holds(work[q]) => work[q].order \notin returned'
        BY DEF Holds
    <1>2. /\ \A q \in Requests : BatteryRead(work[q])'
          /\ Together'
          /\ \A q \in Requests : Holds(work[q])' => work'[q] = work[q] /\ Holds(work[q])
          /\ \A q \in Requests : Holds(work[q]) => work[q].got.battery \in Batteries
        BY <1>1, EndsRead
    <1>3. /\ \A p \in OrderIds : orders[p].battery \in Batteries
          /\ batteries \in [Batteries -> BatteryStatus] /\ returned \subseteq OrderIds
        BY Kept DEF RacesInv
    <1>4. \A p \in OrderIds : Renting(p)' <=> Renting(p)
        BY DEF Renting
    <1>5. \A p \in OrderIds : Renting(p) => orders[p].battery # b
        BY DEF SalesInv, RentedIsOut
    <1>6. OneRental'
        BY <1>4, <1>5 DEF SalesInv, OneRental
    <1>7. RentedIsOut'
        BY <1>3, <1>4, <1>5 DEF SalesInv, RentedIsOut
    <1>8. \A q \in Requests : Holds(work[q]) => work[q].got.battery # b
        BY DEF SalesInv, HeldIsOut
    <1>9. HeldIsOut'
        BY <1>2, <1>3, <1>4, <1>8 DEF SalesInv, HeldIsOut
    <1>10. HeldOnce'
        BY <1>2 DEF SalesInv, HeldOnce
    <1>11. CountedIsIn'
        BY DEF CountedIsIn, Counted
    <1> QED BY <1>2, <1>6, <1>7, <1>9, <1>10, <1>11 DEF SalesInv

\* An inventory commits what it has counted.
LEMMA BatteryCounted ==
    ASSUME RacesInv, SalesInv, WorkEnds, OrderIds' = OrderIds,
           orders' = orders, returned' = returned,
           NEW r \in Requests, NEW b \in Batteries, work[r].kind = "inventory",
           work[r].row.battery = b,
           batteries' = [batteries EXCEPT ![b] = work[r].status]
    PROVE  SalesInv'
    <1>0. batteries \in [Batteries -> BatteryStatus]
        BY Kept DEF RacesInv
    <1>1. CASE work[r].status # "in_cabinet"
        <2>1. \A c \in Batteries : batteries'[c] = "in_cabinet" => batteries[c] = "in_cabinet"
            BY <1>0, <1>1
        <2> QED BY <2>1, NothingSold DEF Renting
    <1>2. CASE work[r].status = "in_cabinet"
        <2>1. \A q \in Requests : Holds(work[q]) => work[q].order \notin returned'
            BY DEF Holds
        <2>2. /\ \A q \in Requests : BatteryRead(work[q])'
              /\ Together'
              /\ \A q \in Requests : Holds(work[q])' => work'[q] = work[q] /\ Holds(work[q])
              /\ \A q \in Requests : \A c : Counted(work[q], c)' =>
                    work'[q] = work[q] /\ Counted(work[q], c)
              /\ \A q \in Requests : Holds(work[q]) => work[q].got.battery \in Batteries
            BY <2>1, EndsRead
        <2>3. \A p \in OrderIds : orders[p].battery \in Batteries
            BY Kept DEF RacesInv
        <2>4. Counted(work[r], b)
            BY <1>2 DEF Counted
        <2>5. /\ \A p \in OrderIds : Renting(p) => orders[p].battery # b
              /\ \A q \in Requests : Holds(work[q]) => work[q].got.battery # b
            BY <2>4 DEF SalesInv, CountedIsIn
        <2>6. OneRental'
            BY DEF SalesInv, OneRental, Renting
        <2>7. RentedIsOut'
            BY <1>0, <2>3, <2>5 DEF SalesInv, RentedIsOut, Renting
        <2>8. HeldIsOut'
            BY <1>0, <2>2, <2>5 DEF SalesInv, HeldIsOut, Renting
        <2>9. HeldOnce'
            BY <2>2 DEF SalesInv, HeldOnce
        <2>10. CountedIsIn'
            BY <2>2 DEF SalesInv, CountedIsIn, Renting
        <2> QED BY <2>2, <2>6, <2>7, <2>8, <2>9, <2>10 DEF SalesInv
    <1> QED BY <1>1, <1>2

\* A request starts: a rental it may return or write back is in the table, and
\* a battery it has counted is in the cabinet.
LEMMA WorkStartsSale ==
    ASSUME RacesInv, SalesInv, NEW r \in Requests, NEW w, Start(r, w),
           OrderIds' = OrderIds, UNCHANGED <<orders, returned, batteries>>,
           BatteryRead(w),
           Holds(w) => w.order \in OrderIds /\ w.got = orders[w.order],
           \A b \in Batteries : Counted(w, b) => batteries[b] = "in_cabinet"
    PROVE  SalesInv'
    <1>0. work = [q \in Requests |-> work[q]]
        BY DEF RacesInv
    <1>1. /\ work[r].kind = "idle" /\ work'[r] = w
          /\ \A q \in Requests : q # r => work'[q] = work[q]
          /\ \A q \in Requests : \/ work[q].kind = "idle"
                                 \/ \E F \in Families : {w.kind, work[q].kind} \subseteq F
        BY <1>0 DEF Start, MayOverlap
    <1>2. \A q \in Requests : BatteryRead(work[q])'
        BY <1>1 DEF SalesInv, BatteryRead
    <1>3. Together'
        BY <1>1 DEF SalesInv, Together
    <1>4. \A q \in Requests :
             Holds(work[q])' => \/ q = r /\ Holds(w)
                                \/ q # r /\ Holds(work[q])
        BY <1>1 DEF Holds
    <1>5. \A q \in Requests : \A b :
             Counted(work[q], b)' => \/ q = r /\ Counted(w, b)
                                     \/ q # r /\ Counted(work[q], b)
        BY <1>1 DEF Counted
    <1>6. OneRental' /\ RentedIsOut'
        BY DEF SalesInv, OneRental, RentedIsOut, Renting
    <1>7. Holds(w) => /\ w.order \in OrderIds /\ Renting(w.order)
                      /\ w.got.battery = orders[w.order].battery
        BY DEF Holds, Renting
    <1>8. HeldIsOut'
        BY <1>1, <1>4, <1>7 DEF SalesInv, HeldIsOut, OneRental, RentedIsOut, Renting
    <1>9. HeldOnce'
        BY <1>1, <1>4, <1>7 DEF SalesInv, HeldOnce, HeldIsOut
    <1>10. CountedIsIn'
        BY <1>1, <1>4, <1>5, <1>7
           DEF SalesInv, CountedIsIn, HeldIsOut, RentedIsOut, Renting
    <1> QED BY <1>2, <1>3, <1>6, <1>8, <1>9, <1>10 DEF SalesInv

LEMMA BeginSales ==
    ASSUME RacesInv, SalesInv, BatteriesApart, NEW r \in Requests, Begin(r)
    PROVE  SalesInv'
    <1>0. TypeOK
        BY DEF RacesInv
    <1>1. ASSUME NEW o \in OrderIds,
                 \/ \E b \in Batteries : StartDetect(r, b, o)
                 \/ StartManual(r, o) \/ StartLost(r, o)
                 \/ StartDamage(r, o) \/ StartFail(r, o)
          PROVE  SalesInv'
        <2>1. PICK kind \in {"detect", "manual", "lost", "damage", "fail"} :
                 /\ Start(r, Read(kind, o, "none")) /\ UNCHANGED vars
                 /\ kind \in {"detect", "manual"} => orders[o].status = "renting"
            BY <1>1 DEF StartDetect, StartManual, StartLost, StartDamage, StartFail,
                        RentedAs
        <2>2. OrderIds' = OrderIds /\ UNCHANGED <<orders, returned, batteries>>
            BY <2>1 DEF vars, OrderIds
        <2> DEFINE w == Read(kind, o, "none")
        <2>3. w.kind = kind /\ w.order = o /\ w.got = orders[o]
            BY DEF Read
        <2>4. Start(r, w)
            BY <2>1
        <2> HIDE DEF w
        <2>5. BatteryRead(w)
            BY <2>1, <2>3 DEF BatteryRead, SalesInv, RentedIsOut, Renting
        <2>6. \A b \in Batteries : ~Counted(w, b)
            BY <2>3 DEF Counted
        <2> QED BY <2>2, <2>3, <2>4, <2>5, <2>6, WorkStartsSale
    <1>2. ASSUME UNCHANGED vars, NEW w, Start(r, w),
                 w.kind \in {"rent", "abnormal", "inventory"},
                 \A b \in Batteries : Counted(w, b) => batteries[b] = "in_cabinet"
          PROVE  SalesInv'
        <2>1. OrderIds' = OrderIds /\ UNCHANGED <<orders, returned, batteries>>
            BY <1>2 DEF vars, OrderIds
        <2>2. BatteryRead(w) /\ ~Holds(w)
            BY <1>2 DEF BatteryRead, Holds, OrderKinds
        <2> QED BY <1>2, <2>1, <2>2, WorkStartsSale
    <1>3. ASSUME NEW o \in OrderIds,
                 \/ \E report \in Reports, aged, expired \in BOOLEAN :
                       StartDecide(r, o, report, aged, expired)
                 \/ \E action : StartCompensate(r, o, action)
          PROVE  FALSE
        <2>1. \E kind \in {"decide", "compensate"} : MayOverlap(kind)
            BY <1>3 DEF StartDecide, Alone, StartCompensate, Start, Read
        <2> QED BY <2>1 DEF MayOverlap, BatteriesApart
    <1>4. ASSUME NEW u \in Users, NEW c \in Cabinets, StartRent(r, u, c)
          PROVE  SalesInv'
        <2>1. ReadUser(u, c).kind = "rent"
            BY DEF ReadUser
        <2>2. \A b \in Batteries : ~Counted(ReadUser(u, c), b)
            BY <2>1 DEF Counted
        <2> QED BY <1>2, <1>4, <2>1, <2>2 DEF StartRent
    <1>5. ASSUME NEW u \in Users, NEW s \in Slots, NEW reason,
                 StartAbnormal(r, u, s, reason)
          PROVE  SalesInv'
        <2>1. ReadFailed(u, s, reason).kind = "abnormal"
            BY DEF ReadFailed
        <2>2. \A b \in Batteries : ~Counted(ReadFailed(u, s, reason), b)
            BY <2>1 DEF Counted
        <2> QED BY <1>2, <1>5, <2>1, <2>2 DEF StartAbnormal
    <1>6. ASSUME NEW s \in Slots, StartInventory(r, s)
          PROVE  SalesInv'
        <2>1. ReadSlot(s).kind = "inventory"
            BY DEF ReadSlot
        <2>2. \A b \in Batteries : Counted(ReadSlot(s), b) => batteries[b] = "in_cabinet"
            BY DEF Counted, ReadSlot
        <2> QED BY <1>2, <1>6, <2>1, <2>2 DEF StartInventory
    <1> QED BY <1>1, <1>3, <1>4, <1>5, <1>6 DEF Begin

\* Over a row, a commit writes one for the same battery that starts no rental.
LEMMA RowClosed ==
    ASSUME RacesInv, SalesInv, WorkEnds, NEW o \in OrderIds, NEW row \in OrderRow,
           orders' = [orders EXCEPT ![o] = row], OrderIds' = OrderIds,
           returned' = returned, row.battery = orders[o].battery,
           row.status = "renting" => Renting(o),
           \A b \in Batteries : batteries'[b] = "in_cabinet" => batteries[b] = "in_cabinet"
    PROVE  SalesInv'
    <1>1. TypeOK
        BY DEF RacesInv
    <1>2. /\ orders'[o] = row
          /\ \A p \in OrderIds : p # o => orders'[p] = orders[p]
        BY <1>1, OrderRewritten
    <1>3. \A p \in OrderIds : /\ orders'[p].battery = orders[p].battery
                              /\ Renting(p)' => Renting(p)
        BY <1>2 DEF Renting
    <1> QED BY <1>3, NothingSold

LEMMA EndSales ==
    ASSUME RacesInv, SalesInv, BatteriesApart, NEW r \in Requests, End(r)
    PROVE  SalesInv'
    <1> DEFINE w == work[r]
               o == w.order
    <1>0. /\ TypeOK /\ work = [q \in Requests |-> work[q]]
          /\ batteries \in [Batteries -> BatteryStatus]
        BY Kept DEF RacesInv
    <1>1. work' = [work EXCEPT ![r] = NotWorking]
        BY DEF End, FinishDetect, FinishManual, FinishLost, FinishDamage,
               FinishDecision, FinishFail, FinishRent, FinishAbnormal,
               FinishInventory, GiveUp, Finish
    <1>2. /\ WorkEnds /\ work'[r] = NotWorking
          /\ \A q \in Requests : q # r => work'[q] = work[q]
        BY <1>0, <1>1 DEF WorkEnds
    <1>3. w.kind \in OrderKinds =>
             /\ o \in OrderIds /\ w.got \in OrderRow /\ orders[o] \in OrderRow
             /\ w.got.battery = orders[o].battery /\ w.got.battery \in Batteries
        BY <1>0, AtWork, Kept DEF SalesInv, BatteryRead, OrderRow
    <1>4. BatteryRead(w)
        BY DEF SalesInv
    <1> HIDE DEF w, o
    <1>5. ASSUME NEW s \in Slots, NEW fee \in Fees \cup {0},
                 \/ \E suspect \in BOOLEAN : FinishDetect(r, s, fee, suspect)
                 \/ FinishManual(r, s, fee)
          PROVE  SalesInv'
        <2>1. PICK status \in {"completed", "disputed"}, x \in {0, w.got.exceptionFee} :
                 /\ w.kind \in {"detect", "manual"} /\ fee \in FeesOf(w.got)
                 /\ ReturnTx(o, w.got, fee, status, x)
            BY <1>5 DEF FinishDetect, FinishManual, Finish, w, o
        <2>2. /\ o \in OrderIds /\ w.got \in OrderRow
              /\ w.got.battery = orders[o].battery
            BY <1>3, <2>1, OrderKindNames
        <2>3. /\ fee \in Nat /\ status \in OrderStatus /\ x \in Nat
            BY <2>1, <2>2, FeesAreNat DEF OrderStatus, OrderRow
        <2> DEFINE row == ReturnedRow(w.got, fee, status, x)
        <2>4. row \in OrderRow /\ row.battery = w.got.battery /\ row.status = status
            BY <2>2, <2>3, ReturnedRowFacts
        <2>5. /\ orders' = [orders EXCEPT ![o] = row] /\ OrderIds' = OrderIds
              /\ o \notin returned /\ returned' = returned \cup {o}
              /\ batteries' = [batteries EXCEPT ![w.got.battery] = "in_cabinet"]
            BY <2>1 DEF ReturnTx, OrderIds
        <2> HIDE DEF row
        <2>6. /\ orders'[o] = row
              /\ \A p \in OrderIds : p # o => orders'[p] = orders[p]
            BY <1>0, <2>2, <2>4, <2>5, OrderRewritten
        <2>7. \A p \in OrderIds : /\ orders'[p].battery = orders[p].battery
                                  /\ p # o => orders'[p] = orders[p]
            BY <2>2, <2>4, <2>6
        <2>8. orders'[o].status # "renting"
            BY <2>1, <2>4, <2>6
        <2>9. Holds(w)
            BY <1>4, <2>1, <2>5 DEF Holds, BatteryRead, o
        <2> QED BY <1>2, <2>1, <2>5, <2>7, <2>8, <2>9, BatteryReturned DEF w, o
    <1>6. ASSUME NEW fee \in Fees \cup {0}, NEW lostFee \in LostFees,
                 FinishLost(r, fee, lostFee)
          PROVE  SalesInv'
        <2>1. w.kind = "lost" /\ fee \in FeesOf(w.got) /\ LostTx(o, w.got, fee, lostFee)
            BY <1>6 DEF FinishLost, Finish, w, o
        <2>2. /\ o \in OrderIds /\ w.got \in OrderRow
              /\ w.got.battery = orders[o].battery /\ w.got.battery \in Batteries
            BY <1>3, <2>1, OrderKindNames
        <2>3. fee \in Nat /\ lostFee \in Nat
            BY <2>1, FeesAreNat, StoreAssumption
        <2> DEFINE row == LostRow(w.got, fee, lostFee)
        <2>4. row \in OrderRow /\ row.battery = w.got.battery /\ row.status = "lost"
            BY <2>2, <2>3, LostRowFacts
        <2>5. /\ orders' = [orders EXCEPT ![o] = row] /\ OrderIds' = OrderIds
              /\ returned' = returned
              /\ batteries' = [batteries EXCEPT ![w.got.battery] = "lost"]
            BY <2>1 DEF LostTx, OrderIds
        <2> HIDE DEF row
        <2>6. \A b \in Batteries : batteries'[b] = "in_cabinet" => batteries[b] = "in_cabinet"
            BY <1>0, <2>2, <2>5
        <2> QED BY <1>2, <2>2, <2>4, <2>5, <2>6, RowClosed
    <1>7. ASSUME NEW damageFee \in DamageFees, FinishDamage(r, damageFee)
          PROVE  SalesInv'
        <2>1. w.kind = "damage" /\ DamageTx(o, w.got, damageFee)
            BY <1>7 DEF FinishDamage, Finish, w, o
        <2>2. /\ o \in OrderIds /\ w.got \in OrderRow
              /\ w.got.battery = orders[o].battery /\ w.got.battery \in Batteries
            BY <1>3, <2>1, OrderKindNames
        <2>3. damageFee \in Nat
            BY StoreAssumption
        <2> DEFINE row == DamagedRow(w.got, damageFee)
        <2>4. /\ row \in OrderRow /\ row.battery = w.got.battery
              /\ row.status = w.got.status
            BY <2>2, <2>3, DamagedRowFacts
        <2>5. /\ orders' = [orders EXCEPT ![o] = row] /\ OrderIds' = OrderIds
              /\ returned' = returned
              /\ batteries' = [batteries EXCEPT ![w.got.battery] = "damaged"]
            BY <2>1 DEF DamageTx, OrderIds
        <2> HIDE DEF row
        <2>6. \A b \in Batteries : batteries'[b] = "in_cabinet" => batteries[b] = "in_cabinet"
            BY <1>0, <2>2, <2>5
        <2>7. CASE row.status # "renting"
            BY <1>2, <2>2, <2>4, <2>5, <2>6, <2>7, RowClosed
        <2>8. CASE row.status = "renting"
            <3>1. Holds(w)
                BY <1>4, <2>1, <2>4, <2>8 DEF BatteryRead, Holds
            <3>2. /\ orders'[o] = row
                  /\ \A p \in OrderIds : p # o => orders'[p] = orders[p]
                BY <1>0, <2>2, <2>4, <2>5, OrderRewritten
            <3>3. \A p \in OrderIds : /\ orders'[p].battery = orders[p].battery
                                      /\ p # o => orders'[p] = orders[p]
                BY <2>2, <2>4, <3>2
            <3> QED BY <1>2, <2>1, <2>5, <2>6, <3>1, <3>3, RentalKept DEF w, o
        <2> QED BY <2>7, <2>8
    <1>8. ASSUME NEW kind \in {"decide", "compensate"}, FinishDecision(r, kind)
          PROVE  FALSE
        BY <1>4, <1>8 DEF BatteryRead, FinishDecision, Finish, w
    <1>9. CASE FinishFail(r)
        <2> DEFINE row == AbnormalRow(orders[o])
        <2>1. /\ w.kind = "fail" /\ orders' = [orders EXCEPT ![o] = row]
              /\ UNCHANGED <<lastId, returned, batteries>>
            BY <1>0, <1>9, Kept DEF FinishFail, Finish, w, o
        <2>2. o \in OrderIds /\ orders[o] \in OrderRow
            BY <1>3, <2>1, OrderKindNames
        <2>3. /\ row \in OrderRow /\ row.battery = orders[o].battery
              /\ row.status = "abnormal" /\ OrderIds' = OrderIds
            BY <2>1, <2>2, AbnormalRowFacts DEF OrderIds
        <2> HIDE DEF row
        <2> QED BY <1>2, <2>1, <2>2, <2>3, RowClosed
    <1>10. ASSUME NEW s \in Slots, FinishRent(r, s)
          PROVE  SalesInv'
        <2> DEFINE b == slots[s].battery
        <2>1. /\ w.kind = "rent" /\ ScanOutcome(s, TRUE) = "rentable"
              /\ returned' = returned /\ lastId' = lastId + 1
              /\ batteries' = [batteries EXCEPT ![b] = "in_use"]
            BY <1>10 DEF FinishRent, Finish, InsertOrder, w
        <2>2. slots[s] \in SlotRow /\ lastId \in Nat
            BY <1>0, Kept
        <2>3. b \in Batteries /\ batteries[b] = "in_cabinet"
            BY <2>1, <2>2 DEF ScanOutcome, SlotRow
        <2>4. /\ OrderIds \subseteq OrderIds'
              /\ \A p \in OrderIds' : p \notin OrderIds => p = lastId'
              /\ \A p \in OrderIds : orders'[p] = orders[p]
              /\ orders'[lastId'] = NewOrder(w.user, b, s, "renting", "none")
            BY <1>10, EndRentType DEF w
        <2>5. orders'[lastId'].battery = b
            BY <2>4 DEF NewOrder
        <2>6. lastId' \notin OrderIds
            BY <2>1, <2>2 DEF OrderIds
        <2> HIDE DEF b
        <2>7. \A q \in Requests : work'[q].kind # "inventory"
            <3> SUFFICES ASSUME NEW q \in Requests, work'[q].kind = "inventory"
                         PROVE  FALSE
                OBVIOUS
            <3>1. q # r /\ work[q].kind = "inventory" /\ work[r].kind = "rent"
                BY <1>2, <2>1 DEF NotWorking, w
            <3>2. PICK F \in Families : {work[q].kind, work[r].kind} \subseteq F
                BY <3>1 DEF SalesInv, Together
            <3>3. "inventory" \in F /\ F \cap {"rent", "scan"} # {}
                BY <3>1, <3>2
            <3> QED BY <3>3 DEF BatteriesApart
        <2> QED BY <1>2, <2>1, <2>3, <2>4, <2>5, <2>6, <2>7, BatterySold
    <1>11. CASE FinishAbnormal(r)
        <2>1. /\ OrderIds \subseteq OrderIds'
              /\ \A p \in OrderIds' : p \notin OrderIds => p = lastId'
              /\ \A p \in OrderIds : orders'[p] = orders[p]
              /\ orders'[lastId'].status = "abnormal"
            BY <1>11, EndAbnormalType
        <2>2. UNCHANGED <<returned, batteries>>
            BY <1>11 DEF FinishAbnormal
        <2> QED BY <1>2, <2>1, <2>2, NothingSold DEF Renting
    <1>12. CASE FinishInventory(r)
        <2>1. /\ w.kind = "inventory" /\ orders' = orders /\ OrderIds' = OrderIds
              /\ returned' = returned
              /\ batteries' = IF w.row.battery = NoBattery THEN batteries
                              ELSE [batteries EXCEPT ![w.row.battery] = w.status]
            BY <1>12 DEF FinishInventory, Finish, OrderIds, w
        <2>2. w.row.battery \in Batteries \cup {NoBattery}
            BY <2>1, AtWork DEF SlotRow, w
        <2>3. CASE w.row.battery = NoBattery
            BY <1>2, <2>1, <2>3, NothingSold DEF Renting
        <2>4. CASE w.row.battery \in Batteries
            <3>1. w.row.battery # NoBattery
                BY <2>4, StoreAssumption
            <3> QED BY <1>2, <2>1, <2>4, <3>1, BatteryCounted DEF w
        <2> QED BY <2>2, <2>3, <2>4
    <1>13. CASE GiveUp(r)
        <2>1. orders' = orders /\ OrderIds' = OrderIds /\ UNCHANGED <<returned, batteries>>
            BY <1>13 DEF GiveUp, vars, OrderIds
        <2> QED BY <1>2, <2>1, NothingSold DEF Renting
    <1> QED BY <1>5, <1>6, <1>7, <1>8, <1>9, <1>10, <1>11, <1>12, <1>13 DEF End

LEMMA AloneSales ==
    ASSUME RacesInv, SalesInv, BatteriesApart, work' = work,
           \/ \E u \in Users, amount \in TopUps : TopUp(u, amount)
           \/ MayOverlap("scan") /\ Scan
           \/ Reported \/ Disputed
    PROVE  SalesInv'
    <1>0. TypeOK /\ WorkEnds
        BY DEF RacesInv, WorkEnds
    <1>1. ASSUME orders' = orders, OrderIds' = OrderIds, UNCHANGED <<returned, batteries>>
          PROVE  SalesInv'
        BY <1>0, <1>1, NothingSold DEF Renting
    <1>2. CASE \/ \E u \in Users, amount \in TopUps : TopUp(u, amount)
               \/ Reported
        <2>1. orders' = orders /\ OrderIds' = OrderIds /\ UNCHANGED <<returned, batteries>>
            BY <1>2 DEF TopUp, Reported, LockReportOpened, CabinetRecovered, OrderIds
        <2> QED BY <1>1, <2>1
    <1>3. ASSUME NEW o \in OrderIds, CreateDispute(o)
          PROVE  SalesInv'
        <2> DEFINE row == DisputedRow(orders[o])
        <2>1. /\ orders' = [orders EXCEPT ![o] = row] /\ OrderIds' = OrderIds
              /\ UNCHANGED <<returned, batteries>>
            BY <1>3 DEF CreateDispute, OrderIds
        <2>2. /\ row \in OrderRow /\ row.battery = orders[o].battery
              /\ row.status = "disputed"
            BY <1>0, Kept, DisputedRowFacts
        <2> HIDE DEF row
        <2> QED BY <1>0, <2>1, <2>2, RowClosed
    <1>4. ASSUME NEW d \in 1..filed, NEW refund \in Refunds,
                 NEW adjust \in Fees \cup {0}, HandleDispute(d, adjust, refund)
          PROVE  SalesInv'
        <2> DEFINE o == disputes[d]
                   row == AdjustedRow(orders[o], adjust, refund)
        <2>1. /\ o # 0 /\ orders' = [orders EXCEPT ![o] = row]
              /\ OrderIds' = OrderIds /\ UNCHANGED <<returned, batteries>>
            BY <1>4 DEF HandleDispute, OrderIds
        <2>2. o \in OrderIds
            BY <1>0, <2>1 DEF TypeOK
        <2>3. refund \in Nat /\ adjust \in Nat
            BY StoreAssumption, LifecycleAssumption
        <2>4. /\ row \in OrderRow /\ row.battery = orders[o].battery
              /\ row.status = orders[o].status
            <3>1. orders[o] \in OrderRow
                BY <1>0, <2>2, Kept
            <3> HIDE DEF o
            <3> QED BY <3>1, <2>3, AdjustedRowFacts
        <2> HIDE DEF row, o
        <2>5. row.status = "renting" => Renting(o)
            BY <2>4 DEF Renting
        <2> QED BY <1>0, <2>1, <2>2, <2>4, <2>5, RowClosed
    <1>5. CASE MayOverlap("scan") /\ Scan
        <2>1. returned' = returned
            BY <1>0, <1>5, ScanOrders
        <2>2. CASE OrderIds' = OrderIds /\ orders' = orders /\ batteries' = batteries
            BY <1>1, <2>1, <2>2
        <2>3. ASSUME NEW u \in Users, Added(u)
              PROVE  SalesInv'
            <3>1. CASE orders'[lastId'].status = "abnormal" /\ batteries' = batteries
                BY <1>0, <2>1, <2>3, <3>1, NothingSold DEF Added, Renting
            <3>2. ASSUME NEW b \in Batteries, batteries[b] = "in_cabinet",
                         orders'[lastId'].battery = b,
                         batteries' = [batteries EXCEPT ![b] = "in_use"]
                  PROVE  SalesInv'
                <4>1. \A q \in Requests : work'[q].kind # "inventory"
                    <5> SUFFICES ASSUME NEW q \in Requests, work[q].kind = "inventory"
                                 PROVE  FALSE
                        OBVIOUS
                    <5>1. PICK F \in Families : {"scan", work[q].kind} \subseteq F
                        BY <1>5 DEF MayOverlap
                    <5>2. "inventory" \in F /\ F \cap {"rent", "scan"} # {}
                        BY <5>1
                    <5> QED BY <5>2 DEF BatteriesApart
                <4> QED BY <1>0, <2>1, <2>3, <3>2, <4>1, BatterySold DEF Added
            <3> QED BY <2>3, <3>1, <3>2 DEF Added
        <2> QED BY <1>0, <1>5, <2>2, <2>3, ScanOrders
    <1> QED BY <1>2, <1>3, <1>4, <1>5 DEF Disputed

LEMMA SalesStep ==
    ASSUME BatteriesApart
    PROVE  RacesInv /\ SalesInv /\ [RacesNext]_raceVars => SalesInv'
    <1> SUFFICES ASSUME RacesInv, SalesInv, [RacesNext]_raceVars PROVE SalesInv'
        OBVIOUS
    <1>1. ASSUME NEW r \in Requests, Begin(r) \/ End(r)
          PROVE  SalesInv'
        BY <1>1, BeginSales, EndSales
    <1>2. CASE /\ work' = work
               /\ \/ \E u \in Users, amount \in TopUps : TopUp(u, amount)
                  \/ MayOverlap("scan") /\ Scan
                  \/ Reported \/ Disputed
        BY <1>2, AloneSales
    <1>3. CASE UNCHANGED raceVars
        <2>1. /\ orders' = orders /\ OrderIds' = OrderIds /\ WorkEnds
              /\ UNCHANGED <<returned, batteries>>
            BY <1>3 DEF raceVars, vars, OrderIds, WorkEnds
        <2> QED BY <2>1, NothingSold DEF Renting
    <1> QED BY <1>1, <1>2, <1>3 DEF RacesNext, Alone

LEMMA SalesStart == RacesInit => SalesInv
    <1> SUFFICES ASSUME RacesInit PROVE SalesInv
        OBVIOUS
    <1>1. /\ OrderIds = {}
          /\ \A r \in Requests : work[r].kind = "idle"
        BY DEF RacesInit, Init, OrderIds, NotWorking
    <1> QED BY <1>1 DEF SalesInv, BatteryRead, OrderKinds, Handlers, Together,
                        OneRental, RentedIsOut, HeldIsOut, HeldOnce, Holds,
                        CountedIsIn, Counted

\* A step that adds a rental adds one of a battery nobody rents.
LEMMA SoldOnceStep ==
    ASSUME RacesInv, SalesInv, [RacesNext]_raceVars,
           NEW o \in 1..lastId' \ OrderIds, orders'[o].status = "renting",
           NEW p \in OrderIds, Renting(p)
    PROVE  orders[p].battery # orders'[o].battery
    <1>0. TypeOK /\ o \notin OrderIds /\ o \in OrderIds'
        BY DEF RacesInv, OrderIds
    <1>1. batteries[orders[p].battery] # "in_cabinet"
        BY DEF SalesInv, RentedIsOut
    <1>2. ASSUME NEW r \in Requests, Begin(r) \/ End(r), OrderIds' # OrderIds
          PROVE  \/ \E s \in Slots : FinishRent(r, s)
                 \/ FinishAbnormal(r)
        <2>1. CASE Begin(r)
            <3>1. lastId' = lastId
                BY <2>1 DEF Begin, StartDetect, StartManual, StartLost, StartDamage,
                            StartFail, StartDecide, StartCompensate, StartRent,
                            StartAbnormal, StartInventory, vars, storeVars
            <3> QED BY <1>2, <3>1 DEF OrderIds
        <2>2. CASE GiveUp(r)
            BY <1>2, <2>2 DEF GiveUp, vars, OrderIds
        <2> QED BY <1>2, <2>1, <2>2, EndReturnType, EndLostType, EndDamageType,
                   EndDecisionType, EndFailType, EndInventoryType DEF End
    <1>3. ASSUME NEW r \in Requests, NEW s \in Slots, FinishRent(r, s)
          PROVE  orders[p].battery # orders'[o].battery
        <2>1. /\ o = lastId'
              /\ orders'[lastId'] = NewOrder(work[r].user, slots[s].battery, s,
                                             "renting", "none")
            BY <1>0, <1>3, EndRentType
        <2>2. orders'[o].battery = slots[s].battery
            BY <2>1 DEF NewOrder
        <2>3. batteries[slots[s].battery] = "in_cabinet"
            BY <1>3 DEF FinishRent, ScanOutcome
        <2> QED BY <1>1, <2>2, <2>3
    <1>4. ASSUME NEW r \in Requests, FinishAbnormal(r)
          PROVE  FALSE
        BY <1>0, <1>4, EndAbnormalType
    <1>5. CASE Scan
        <2>1. PICK u \in Users : Added(u)
            BY <1>0, <1>5, ScanOrders
        <2>2. o = lastId'
            BY <1>0, <2>1 DEF Added
        <2> QED BY <1>1, <2>1, <2>2 DEF Added
    <1>6. CASE \/ \E u \in Users, amount \in TopUps : TopUp(u, amount)
               \/ Reported \/ Disputed
        BY <1>0, <1>6, AloneType
    <1>7. CASE UNCHANGED raceVars
        BY <1>0, <1>7 DEF raceVars, vars, OrderIds
    <1> QED BY <1>0, <1>2, <1>3, <1>4, <1>5, <1>6, <1>7 DEF RacesNext, Alone

\* A battery that is rented is not handed to somebody else, whatever returns,
\* losses, unlocking failures, disputes and scans overlap: as long as no
\* abnormal order is recreated, no inventory overlaps a scan, and no damage
\* report overlaps a return.
THEOREM BatteriesAreSoldOnce ==
    ASSUME BatteriesApart
    PROVE  RacesSpec => BatterySoldOnce
    <1>1. RacesInv /\ SalesInv /\ [RacesNext]_raceVars => RacesInv' /\ SalesInv'
        BY RacesStep, SalesStep
    <1>2. RacesInit => RacesInv /\ SalesInv
        BY RacesStart, SalesStart
    <1> DEFINE Sold == \A o \in 1..lastId' \ OrderIds :
                          orders'[o].status = "renting" =>
                              \A p \in OrderIds :
                                  Renting(p) => orders[p].battery # orders'[o].battery
    <1>3. RacesInv /\ SalesInv /\ [RacesNext]_raceVars => Sold
        BY SoldOnceStep
    <1>4. RacesSpec => [][Sold]_raceVars
        <2> HIDE DEF Sold
        <2> QED BY <1>1, <1>2, <1>3, PTL DEF RacesSpec
    <1> QED BY <1>4 DEF BatterySoldOnce

-----------------------------------------------------------------------------
(* Deposits, as far as the locks keep the handlers apart *)

\* The locks of one order outlive their holders.  Returns do not overlap what
\* else an order may come to, nor does the decision of a device report, but
\* for an unlocking that failed; a damage report does not overlap one either;
\* and an operator's decision overlaps nothing.
DepositsApart ==
    /\ {"op_order", "comp"} \cap Expiring = {}
    /\ \A F \in Families :
          /\ "compensate" \notin F
          /\ "decide" \in F =>
                F \cap {"detect", "manual", "lost", "damage"} = {}
          /\ F \cap {"detect", "manual"} # {} =>
                F \cap {"lost", "damage", "fail"} = {}
          /\ ~({"damage", "fail"} \subseteq F)

Listed(o) == \E report \in Reports : <<o, report>> \in pending

\* The row a request has read tells what became of the deposit, still.
DepositRead(w) ==
    /\ w.got.depositStatus = orders[w.order].depositStatus
    /\ Settled(w.got, ledger[w.order], w.order \in returned)

\* A request that may commit what it has read.
MayCommit(w) ==
    /\ w.kind \in {"detect", "manual"} =>
          \/ w.order \in returned
          \/ /\ DepositRead(w) /\ w.got.status = "renting"
             /\ orders[w.order].status # "abnormal"
             /\ Listed(w.order) => w.got.comp = 1
    /\ w.kind = "damage" =>
          /\ DepositRead(w) /\ orders[w.order].status # "abnormal"
          /\ Listed(w.order) => Waiting(w.got, w.order \in returned)
    /\ w.kind = "lost" =>
          /\ DepositRead(w) /\ w.got.status \in {"renting", "disputed"}
          /\ Listed(w.order) => w.got.comp = 1 \/ w.order \notin returned
    /\ w.kind \in {"decide", "compensate"} =>
          /\ DepositRead(w) /\ w.order \notin returned
          /\ w.got.status \in {"abnormal", "disputed", "lost"}
    /\ w.kind = "fail" => w.order \notin returned

\* Two requests that hold the lock of an order are one.
LockedOnce ==
    \A r, q \in Requests : \A L \in {{"lost", "damage"}, {"decide"}} :
        /\ work[r].kind \in L /\ work[q].kind \in L
        /\ work[r].order = work[q].order
        => r = q

DepositsInv ==
    /\ Inv /\ Together /\ LockedOnce
    /\ \A r \in Requests : MayCommit(work[r])

\* Who works next to whom.
LEMMA KeptApart ==
    ASSUME DepositsInv, DepositsApart, NEW r \in Requests, NEW q \in Requests,
           r # q, work[r].kind # "idle", work[q].kind # "idle"
    PROVE  /\ work[r].kind # "compensate"
           /\ work[r].kind = "decide" =>
                 work[q].kind \notin {"detect", "manual", "lost", "damage"}
           /\ work[r].kind \in {"detect", "manual"} =>
                 work[q].kind \notin {"lost", "damage", "fail", "decide"}
           /\ work[r].kind \in {"lost", "damage", "fail"} =>
                 work[q].kind \notin {"detect", "manual"}
           /\ work[r].kind \in {"lost", "damage"} => work[q].kind # "decide"
           /\ work[r].kind = "damage" => work[q].kind # "fail"
           /\ work[r].kind = "fail" => work[q].kind # "damage"
    <1>1. PICK F \in Families : work[r].kind \in F /\ work[q].kind \in F
        BY DEF DepositsInv, Together
    <1> QED BY <1>1 DEF DepositsApart

-----------------------------------------------------------------------------
(* Transactions with a row whose deposit is right *)

\* An order's row is rewritten, and a listed order goes on waiting.
LEMMA ListedOrderChanged ==
    ASSUME TypeOK, Inv, NEW o \in OrderIds, NEW r \in OrderRow,
           orders' = [orders EXCEPT ![o] = r], lastId' = lastId,
           returned \subseteq returned', returned' \subseteq returned \cup {o},
           pending' = pending,
           \A p \in OrderIds : p # o => ledger'[p] = ledger[p],
           Settled(r, ledger'[o], o \in returned'),
           orders[o].depositStatus = 2 =>
              /\ r.depositStatus = 2
              /\ ledger'[o].deduct = ledger[o].deduct
              /\ ledger'[o].release = ledger[o].release,
           Listed(o) => Waiting(r, o \in returned')
    PROVE  GoodStep
    <1>1. /\ OrderIds' = OrderIds /\ orders'[o] = r
          /\ \A p \in OrderIds : p # o => orders'[p] = orders[p]
        BY OrderRewritten DEF OrderIds
    <1>2. \A p \in OrderIds : Keeps(p)
        <2>1. Keeps(o)
            BY <1>1 DEF Keeps
        <2>2. ASSUME NEW p \in OrderIds, p # o
              PROVE  Keeps(p)
            <3>1. /\ orders'[p] = orders[p] /\ ledger'[p] = ledger[p]
                  /\ p \in returned' <=> p \in returned
                BY <1>1, <2>2
            <3> QED BY <3>1 DEF Keeps, Inv
        <2> QED BY <2>1, <2>2
    <1>3. ASSUME NEW p \in OrderIds, NEW q \in Reports, <<p, q>> \in pending'
          PROVE  Waiting(orders'[p], p \in returned')
        <2>1. Waiting(orders[p], p \in returned)
            BY <1>3 DEF Inv
        <2>2. CASE p = o
            BY <1>1, <1>3, <2>2 DEF Listed
        <2>3. CASE p # o
            <3>1. orders'[p] = orders[p] /\ (p \in returned' <=> p \in returned)
                BY <1>1, <2>3
            <3> QED BY <2>1, <3>1
        <2> QED BY <2>2, <2>3
    <1>4. Inv'
        BY <1>1, <1>2, <1>3 DEF Inv, Keeps
    <1> QED BY <1>2, <1>4 DEF GoodStep

\* Closing the deposit with such a row settles the order.
LEMMA StaleCloseSettles ==
    ASSUME TypeOK, NEW o \in OrderIds, NEW row \in OrderRow, NEW fee \in Nat,
           Settled(row, ledger[o], o \in returned), CloseDeposit(o, row, fee)
    PROVE  /\ \A p \in OrderIds : p # o => ledger'[p] = ledger[p]
           /\ ledger'[o].freeze = row.depositAmt
           /\ ledger'[o].deduct + ledger'[o].release = row.depositAmt
           /\ HoldsDeposit(row) <=> row.depositStatus = 1
           /\ row.depositStatus = 2 => ledger'[o] = ledger[o]
    <1> DEFINE d == Deducted(row, fee)
               r == Released(row, fee)
               a == ledger[o].deduct + d
               c == ledger[o].release + r
               l == [ledger[o] EXCEPT !.deduct = a, !.release = c]
    <1>1. /\ ledger \in [OrderIds -> LedgerRow] /\ ledger[o] \in LedgerRow
        BY Kept
    <1>2. /\ row.depositStatus \in {0, 1, 2} /\ row.depositAmt \in Nat
          /\ ledger[o].deduct \in Nat /\ ledger[o].release \in Nat
        BY <1>1 DEF OrderRow, LedgerRow
    <1>3. /\ d \in Nat /\ r \in Nat
          /\ HoldsDeposit(row) => d + r = row.depositAmt
        BY DepositSplit
    <1>4. HoldsDeposit(row) <=> row.depositStatus = 1
        BY <1>2 DEF HoldsDeposit, Settled
    <1>5. CASE HoldsDeposit(row)
        <2>1. ledger' = [ledger EXCEPT ![o] = l]
            BY <1>1, <1>5 DEF CloseDeposit
        <2> HIDE DEF d, r
        <2>2. a \in Nat /\ c \in Nat /\ a + c = row.depositAmt
            BY <1>2, <1>3, <1>4, <1>5 DEF Settled
        <2> HIDE DEF a, c
        <2>3. l.freeze = ledger[o].freeze /\ l.deduct = a /\ l.release = c
            BY <1>1 DEF LedgerRow
        <2> HIDE DEF l
        <2>4. ledger'[o] = l /\ \A p \in OrderIds : p # o => ledger'[p] = ledger[p]
            BY <1>1, <2>1
        <2> QED BY <1>4, <1>5, <2>2, <2>3, <2>4 DEF Settled
    <1>6. CASE ~HoldsDeposit(row)
        <2>1. ledger' = ledger
            BY <1>6 DEF CloseDeposit
        <2> QED BY <1>2, <1>4, <1>6, <2>1 DEF Settled
    <1> QED BY <1>5, <1>6

\* What a decision writes of the deposit and over the rest of the row.
LEMMA DecidedDeposit ==
    ASSUME NEW cur \in OrderRow, NEW new \in OrderRow
    PROVE  LET r == DecidedRow(cur, new)
           IN  /\ r \in OrderRow
               /\ r.status = new.status /\ r.comp = new.comp
               /\ r.depositStatus = new.depositStatus
               /\ r.depositAmt = cur.depositAmt
    <1> DEFINE r1 == [cur EXCEPT !.status = new.status, !.comp = new.comp]
               r2 == [r1 EXCEPT !.depositStatus = new.depositStatus,
                                !.refundAmt = new.refundAmt]
               st == cur.started \/ (new.comp = 1 /\ new.status = "renting")
               r3 == [r2 EXCEPT !.started = st]
    <1>1. /\ r1 \in OrderRow /\ r1.status = new.status /\ r1.comp = new.comp
          /\ r1.depositAmt = cur.depositAmt
        BY DEF OrderRow
    <1>2. DecidedRow(cur, new) = r3
        BY DEF DecidedRow
    <1> HIDE DEF r1
    <1>3. /\ r2 \in OrderRow /\ r2.status = r1.status /\ r2.comp = r1.comp
          /\ r2.depositAmt = r1.depositAmt /\ r2.depositStatus = new.depositStatus
        BY <1>1 DEF OrderRow
    <1> HIDE DEF r2
    <1>4. st \in BOOLEAN
        BY DEF OrderRow
    <1> HIDE DEF st
    <1>5. /\ r3 \in OrderRow /\ r3.status = r2.status /\ r3.comp = r2.comp
          /\ r3.depositAmt = r2.depositAmt /\ r3.depositStatus = r2.depositStatus
        BY <1>3, <1>4 DEF OrderRow
    <1> HIDE DEF r3
    <1> QED BY <1>1, <1>2, <1>3, <1>5

-----------------------------------------------------------------------------
(* What the others make of an order a request has read *)

\* A step that leaves the deposit of order o alone, and lists o only if it is
\* undecided.
Undisturbed(o) ==
    /\ orders'[o].depositStatus = orders[o].depositStatus
    /\ ledger'[o].freeze = ledger[o].freeze
    /\ ledger'[o].deduct = ledger[o].deduct
    /\ ledger'[o].release = ledger[o].release
    /\ o \in returned' <=> o \in returned
    /\ Listed(o)' => Listed(o) \/ Undecided(o)

LEMMA StillMayCommit ==
    ASSUME RacesInv, DepositsInv, NEW q \in Requests, work'[q] = work[q],
           work[q].kind \in OrderKinds, Undisturbed(work[q].order),
           orders'[work[q].order].status = "abnormal" =>
              \/ orders[work[q].order].status = "abnormal"
              \/ work[q].kind \notin {"detect", "manual", "damage"}
    PROVE  MayCommit(work[q])'
    <1> DEFINE w == work[q]
               o == w.order
    <1>1. o \in OrderIds /\ MayCommit(w)
        BY AtWork DEF DepositsInv
    <1>2. Settled(orders[o], ledger[o], o \in returned)
        BY <1>1 DEF DepositsInv, Inv
    <1>3. orders[o].status = "abnormal" => o \notin returned
        BY <1>2 DEF Settled
    <1>4. DepositRead(w) => DepositRead(w)'
        BY DEF DepositRead, Settled, Undisturbed
    <1>5. Listed(o)' => Listed(o) \/ orders[o].status = "abnormal"
        BY DEF Undisturbed, Undecided
    <1>6. o' = o /\ w' = w /\ (o \in returned' <=> o \in returned)
        BY DEF Undisturbed
    <1> HIDE DEF w
    <1>7. CASE w.kind \in {"detect", "manual"}
        BY <1>1, <1>4, <1>5, <1>6, <1>7 DEF MayCommit, w
    <1>8. CASE w.kind = "damage"
        BY <1>1, <1>4, <1>5, <1>6, <1>8 DEF MayCommit, w
    <1>9. CASE w.kind = "lost"
        BY <1>1, <1>3, <1>4, <1>5, <1>6, <1>9 DEF MayCommit, w
    <1>10. CASE w.kind \in {"decide", "compensate", "fail"}
        BY <1>1, <1>4, <1>6, <1>10 DEF MayCommit, w
    <1>11. CASE w.kind \notin {"detect", "manual", "damage", "lost", "decide",
                               "compensate", "fail"}
        BY <1>6, <1>11 DEF MayCommit, w
    <1> QED BY <1>7, <1>8, <1>9, <1>10, <1>11 DEF w

\* Requests end, and those that go on may still commit.
LEMMA DepositsAfter ==
    ASSUME RacesInv, DepositsInv, WorkEnds, GoodStep,
           \A q \in Requests :
              work[q].kind \in OrderKinds /\ work'[q] = work[q]
                 => MayCommit(work[q])'
    PROVE  DepositsInv'
    <1>1. \A q \in Requests : work'[q].kind # "idle" => work'[q] = work[q]
        BY DEF WorkEnds, NotWorking
    <1>2. Together'
        BY <1>1 DEF DepositsInv, Together
    <1>3. LockedOnce'
        BY <1>1 DEF DepositsInv, LockedOnce
    <1>4. ASSUME NEW q \in Requests
          PROVE  MayCommit(work[q])'
        <2>1. CASE work'[q].kind \in OrderKinds /\ work'[q].kind # "idle"
            BY <1>1, <2>1
        <2>2. CASE work'[q].kind \notin OrderKinds \/ work'[q].kind = "idle"
            BY <2>2, OrderKindNames DEF MayCommit
        <2> QED BY <2>1, <2>2
    <1> QED BY <1>2, <1>3, <1>4 DEF DepositsInv, GoodStep

\* A step after which every order keeps its deposit, and none turns abnormal.
LEMMA NobodyDisturbed ==
    ASSUME RacesInv, DepositsInv, WorkEnds, GoodStep,
           \A o \in OrderIds :
              /\ Undisturbed(o)
              /\ orders'[o].status = "abnormal" => orders[o].status = "abnormal"
    PROVE  DepositsInv'
    BY StillMayCommit, DepositsAfter, AtWork

\* A commit that writes order o, with the deposit settled, while nobody who
\* may not go on has read it.
LEMMA OrderCommitted ==
    ASSUME RacesInv, DepositsInv, WorkEnds,
           NEW o \in OrderIds, NEW row \in OrderRow,
           orders' = [orders EXCEPT ![o] = row], lastId' = lastId,
           returned \subseteq returned', returned' \subseteq returned \cup {o},
           pending' = pending,
           \A p \in OrderIds : p # o => ledger'[p] = ledger[p],
           Settled(row, ledger'[o], o \in returned'),
           orders[o].depositStatus = 2 =>
              /\ row.depositStatus = 2
              /\ ledger'[o].deduct = ledger[o].deduct
              /\ ledger'[o].release = ledger[o].release,
           Listed(o) => Waiting(row, o \in returned'),
           \A q \in Requests :
              /\ work[q].kind \in OrderKinds /\ work[q].order = o
              /\ work'[q] = work[q]
              => MayCommit(work[q])'
    PROVE  GoodStep /\ DepositsInv'
    <1>1. TypeOK /\ Inv
        BY DEF RacesInv, DepositsInv
    <1>2. GoodStep
        BY <1>1, ListedOrderChanged
    <1>3. ASSUME NEW q \in Requests, work[q].kind \in OrderKinds,
                 work'[q] = work[q], work[q].order # o
          PROVE  MayCommit(work[q])'
        <2> DEFINE p == work[q].order
        <2>1. p \in OrderIds
            BY <1>3, AtWork
        <2>2. /\ orders'[p] = orders[p] /\ ledger'[p] = ledger[p]
              /\ p \in returned' <=> p \in returned
              /\ Listed(p)' => Listed(p)
            BY <1>1, <1>3, <2>1, OrderRewritten DEF Listed
        <2> QED BY <1>3, <2>2, StillMayCommit DEF Undisturbed
    <1>4. \A q \in Requests :
             work[q].kind \in OrderKinds /\ work'[q] = work[q]
                => MayCommit(work[q])'
        BY <1>3
    <1> QED BY <1>2, <1>4, DepositsAfter

-----------------------------------------------------------------------------
(* Requests start *)

LEMMA WorkStartsDeposit ==
    ASSUME RacesInv, DepositsInv, NEW r \in Requests, NEW w, Start(r, w),
           UNCHANGED <<lastId, orders, ledger, returned>>, pending' \subseteq pending,
           w.kind \in OrderKinds => w.order \in OrderIds,
           MayCommit(w),
           \A L \in {{"lost", "damage"}, {"decide"}}, q \in Requests :
              w.kind \in L /\ work[q].kind \in L => work[q].order # w.order
    PROVE  GoodStep /\ DepositsInv'
    <1>0. work = [q \in Requests |-> work[q]] /\ TypeOK /\ Inv
        BY DEF RacesInv, DepositsInv
    <1>1. /\ work[r].kind = "idle" /\ work'[r] = w
          /\ \A q \in Requests : q # r => work'[q] = work[q]
          /\ \A q \in Requests : \/ work[q].kind = "idle"
                                 \/ \E F \in Families : {w.kind, work[q].kind} \subseteq F
          /\ w.kind \in Kinds
        BY <1>0 DEF Start, MayOverlap
    <1>2. GoodStep
        BY <1>0, NoOrderChanged
    <1>3. Together'
        BY <1>1 DEF DepositsInv, Together
    <1>4. LockedOnce'
        BY <1>1 DEF DepositsInv, LockedOnce
    <1>5. \A o : Listed(o)' => Listed(o)
        BY DEF Listed
    <1>6. ASSUME NEW q \in Requests
          PROVE  MayCommit(work[q])'
        <2>1. CASE q = r
            BY <1>1, <1>5, <2>1 DEF MayCommit, DepositRead
        <2>2. CASE q # r
            <3>1. work'[q] = work[q] /\ MayCommit(work[q])
                BY <1>1, <2>2 DEF DepositsInv
            <3> QED BY <1>5, <3>1 DEF MayCommit, DepositRead
        <2> QED BY <2>1, <2>2
    <1> QED BY <1>2, <1>3, <1>4, <1>6 DEF DepositsInv, GoodStep

\* A request that reads an order as it is.
LEMMA ReadStartsDeposit ==
    ASSUME RacesInv, DepositsInv, NEW r \in Requests, NEW o \in OrderIds,
           NEW kind \in {"detect", "manual", "lost", "damage", "decide",
                         "compensate", "fail"},
           NEW action, Start(r, Read(kind, o, action)),
           UNCHANGED <<lastId, orders, ledger, returned>>, pending' \subseteq pending,
           kind \in {"detect", "manual", "fail"} => orders[o].status = "renting",
           kind = "lost" => orders[o].status \in {"renting", "disputed"},
           kind = "damage" => orders[o].status # "abnormal",
           kind \in {"decide", "compensate"} =>
              /\ orders[o].status \in {"abnormal", "disputed", "lost"}
              /\ o \notin returned,
           \A L \in {{"lost", "damage"}, {"decide"}}, q \in Requests :
              kind \in L /\ work[q].kind \in L => work[q].order # o
    PROVE  GoodStep /\ DepositsInv'
    <1> DEFINE w == Read(kind, o, action)
    <1>1. w.kind = kind /\ w.order = o /\ w.got = orders[o]
        BY DEF Read
    <1>2. Start(r, w)
        OBVIOUS
    <1> HIDE DEF w
    <1>3. /\ Settled(orders[o], ledger[o], o \in returned)
          /\ Listed(o) => Waiting(orders[o], o \in returned)
        BY DEF DepositsInv, Inv, Listed
    <1>4. DepositRead(w)
        BY <1>1, <1>3 DEF DepositRead
    <1>5. orders[o].status \in {"renting", "abnormal"} => o \notin returned
        BY <1>3 DEF Settled
    <1>6. MayCommit(w)
        <2>1. CASE kind \in {"detect", "manual"}
            BY <1>1, <1>3, <1>4, <2>1 DEF MayCommit, Waiting
        <2>2. CASE kind \in {"lost", "damage"}
            BY <1>1, <1>3, <1>4, <1>5, <2>2 DEF MayCommit, Waiting
        <2>3. CASE kind \in {"decide", "compensate", "fail"}
            BY <1>1, <1>4, <1>5, <2>3 DEF MayCommit
        <2> QED BY <2>1, <2>2, <2>3
    <1> QED BY <1>1, <1>2, <1>6, WorkStartsDeposit

\* The lock of an order that nobody takes over.
LEMMA OrderLockFree ==
    ASSUME RacesInv, DepositsApart, NEW o \in OrderIds, NEW q \in Requests
    PROVE  /\ LockFree("op_order", o) /\ work[q].kind \in {"lost", "damage"}
                 => work[q].order # o
           /\ LockFree("comp", o) /\ work[q].kind = "decide" => work[q].order # o
    <1>1. work[q].kind \in {"lost", "damage"} =>
             LockOf(work[q]) = <<"op_order", work[q].order>>
        BY DEF LockOf
    <1>2. work[q].kind = "decide" => LockOf(work[q]) = <<"comp", work[q].order>>
        BY DEF LockOf
    <1> QED BY <1>1, <1>2 DEF LockFree, DepositsApart

LEMMA BeginDeposits ==
    ASSUME RacesInv, DepositsInv, DepositsApart, NEW r \in Requests, Begin(r)
    PROVE  GoodStep /\ DepositsInv'
    <1>0. TypeOK /\ Inv
        BY DEF RacesInv, DepositsInv
    <1>1. ASSUME NEW o \in OrderIds,
                 \/ \E b \in Batteries : StartDetect(r, b, o)
                 \/ StartManual(r, o) \/ StartFail(r, o)
          PROVE  GoodStep /\ DepositsInv'
        <2>1. PICK kind \in {"detect", "manual", "fail"} :
                 /\ Start(r, Read(kind, o, "none")) /\ UNCHANGED vars
                 /\ orders[o].status = "renting"
            BY <1>1 DEF StartDetect, StartManual, StartFail, RentedAs
        <2> QED BY <2>1, ReadStartsDeposit DEF vars
    <1>2. ASSUME NEW o \in OrderIds, StartLost(r, o) \/ StartDamage(r, o)
          PROVE  GoodStep /\ DepositsInv'
        <2>1. PICK kind \in {"lost", "damage"} :
                 /\ Start(r, Read(kind, o, "none")) /\ UNCHANGED vars
                 /\ LockFree("op_order", o)
                 /\ kind = "lost" => orders[o].status \in {"renting", "disputed"}
                 /\ orders[o].status # "abnormal"
            BY <1>2 DEF StartLost, StartDamage
        <2>2. \A q \in Requests : work[q].kind \in {"lost", "damage"}
                                     => work[q].order # o
            BY <2>1, OrderLockFree
        <2> QED BY <2>1, <2>2, ReadStartsDeposit DEF vars
    <1>3. ASSUME NEW o \in OrderIds, NEW report \in Reports, NEW aged \in BOOLEAN,
                 NEW expired \in BOOLEAN, StartDecide(r, o, report, aged, expired)
          PROVE  GoodStep /\ DepositsInv'
        <2> DEFINE action == IF expired THEN "manual_review" ELSE Suggested(o, aged)
        <2>1. /\ <<o, report>> \in pending /\ pending' \subseteq pending
              /\ UNCHANGED <<lastId, orders, ledger, returned>>
              /\ \/ /\ LockFree("comp", o) /\ orders[o].comp # 1
                    /\ Start(r, Read("decide", o, action))
                 \/ work' = work
            BY <1>3 DEF StartDecide, Alone, storeVars
        <2> HIDE DEF action
        <2>2. Waiting(orders[o], o \in returned)
            BY <2>1 DEF DepositsInv, Inv
        <2>3. CASE /\ LockFree("comp", o) /\ orders[o].comp # 1
                   /\ Start(r, Read("decide", o, action))
            <3>1. /\ orders[o].status \in {"abnormal", "disputed", "lost"}
                  /\ o \notin returned
                BY <2>2, <2>3 DEF Waiting
            <3>2. \A q \in Requests : work[q].kind = "decide" => work[q].order # o
                BY <2>3, OrderLockFree
            <3> QED BY <2>1, <2>3, <3>1, <3>2, ReadStartsDeposit
        <2>4. CASE work' = work
            <3>1. GoodStep
                BY <1>0, <2>1, NoOrderChanged
            <3>2. WorkEnds /\ \A p \in OrderIds :
                     /\ Undisturbed(p) /\ orders'[p].status = orders[p].status
                BY <2>1, <2>4 DEF WorkEnds, Undisturbed, Listed
            <3> QED BY <3>1, <3>2, NobodyDisturbed
        <2> QED BY <2>1, <2>3, <2>4
    <1>4. ASSUME NEW o \in OrderIds, NEW action, StartCompensate(r, o, action)
          PROVE  GoodStep /\ DepositsInv'
        <2>1. /\ orders[o].status = "abnormal"
              /\ Start(r, Read("compensate", o, action)) /\ UNCHANGED vars
            BY <1>4 DEF StartCompensate
        <2>2. o \notin returned
            BY <2>1 DEF DepositsInv, Inv, Settled
        <2> QED BY <2>1, <2>2, ReadStartsDeposit DEF vars
    <1>5. ASSUME UNCHANGED vars, NEW w, Start(r, w),
                 w.kind \in {"rent", "abnormal", "inventory"}
          PROVE  GoodStep /\ DepositsInv'
        <2>1. MayCommit(w) /\ w.kind \notin OrderKinds
            BY <1>5 DEF MayCommit, OrderKinds
        <2> QED BY <1>5, <2>1, WorkStartsDeposit DEF vars
    <1>6. ASSUME NEW u \in Users, NEW c \in Cabinets, StartRent(r, u, c)
          PROVE  GoodStep /\ DepositsInv'
        <2>1. ReadUser(u, c).kind = "rent"
            BY DEF ReadUser
        <2> QED BY <1>5, <1>6, <2>1 DEF StartRent
    <1>7. ASSUME NEW u \in Users, NEW s \in Slots, NEW reason,
                 StartAbnormal(r, u, s, reason)
          PROVE  GoodStep /\ DepositsInv'
        <2>1. ReadFailed(u, s, reason).kind = "abnormal"
            BY DEF ReadFailed
        <2> QED BY <1>5, <1>7, <2>1 DEF StartAbnormal
    <1>8. ASSUME NEW s \in Slots, StartInventory(r, s)
          PROVE  GoodStep /\ DepositsInv'
        <2>1. ReadSlot(s).kind = "inventory"
            BY DEF ReadSlot
        <2> QED BY <1>5, <1>8, <2>1 DEF StartInventory
    <1> QED BY <1>1, <1>2, <1>3, <1>4, <1>6, <1>7, <1>8 DEF Begin

-----------------------------------------------------------------------------
(* Requests commit *)

LEMMA EndReturnDeposit ==
    ASSUME RacesInv, DepositsInv, DepositsApart, NEW r \in Requests,
           NEW s \in Slots, NEW fee \in Fees \cup {0}, WorkEnds,
           work'[r] = NotWorking,
           \/ \E suspect \in BOOLEAN : FinishDetect(r, s, fee, suspect)
           \/ FinishManual(r, s, fee)
    PROVE  GoodStep /\ DepositsInv'
    <1> DEFINE w == work[r]
               o == w.order
    <1>1. PICK status \in {"completed", "disputed"}, x \in {0, w.got.exceptionFee} :
             /\ w.kind \in {"detect", "manual"} /\ fee \in FeesOf(w.got)
             /\ ReturnTx(o, w.got, fee, status, x) /\ UNCHANGED Rest
        BY DEF FinishDetect, FinishManual, Finish
    <1>2. /\ o \in OrderIds /\ w.got \in OrderRow /\ orders[o] \in OrderRow
          /\ TypeOK /\ Inv
        BY <1>1, AtWork, OrderKindNames, Kept DEF RacesInv, DepositsInv
    <1>3. /\ fee \in Nat /\ status \in OrderStatus /\ x \in Nat
        BY <1>1, <1>2, FeesAreNat DEF OrderStatus, OrderRow
    <1> DEFINE row == ReturnedRow(w.got, fee, status, x)
    <1>4. /\ o \notin returned /\ returned' = returned \cup {o}
          /\ CloseDeposit(o, w.got, fee)
          /\ orders' = [orders EXCEPT ![o] = row] /\ lastId' = lastId
          /\ pending' = pending
        BY <1>1 DEF ReturnTx, Rest
    <1>5. /\ w.got.depositStatus = orders[o].depositStatus
          /\ Settled(w.got, ledger[o], o \in returned)
          /\ Listed(o) => w.got.comp = 1
        BY <1>1, <1>4 DEF DepositsInv, MayCommit, DepositRead
    <1>6. /\ row \in OrderRow /\ row.depositStatus = 2 /\ row.status = status
          /\ row.depositAmt = w.got.depositAmt /\ row.comp = w.got.comp
        BY <1>2, <1>3, ReturnedRowFacts
    <1> HIDE DEF row
    <1>7. ASSUME NEW q \in Requests, work[q].kind \in OrderKinds,
                 work[q].order = o, work'[q] = work[q]
          PROVE  MayCommit(work[q])'
        <2>1. q # r /\ work[r].kind # "idle"
            BY <1>1, <1>7, OrderKindNames DEF NotWorking, OrderKinds, Handlers
        <2>2. work[q].kind # "idle"
            BY <1>7 DEF OrderKinds, Handlers
        <2>3. work[q].kind \notin {"lost", "damage", "fail", "decide", "compensate"}
            BY <1>1, <2>1, <2>2, KeptApart
        <2>4. o \in returned'
            BY <1>4
        <2> QED BY <1>7, <2>3, <2>4 DEF MayCommit
    <1> HIDE DEF w, o
    <1>8. /\ \A p \in OrderIds : p # o => ledger'[p] = ledger[p]
          /\ ledger'[o].freeze = w.got.depositAmt
          /\ ledger'[o].deduct + ledger'[o].release = w.got.depositAmt
          /\ w.got.depositStatus = 2 => ledger'[o] = ledger[o]
        BY <1>2, <1>3, <1>4, <1>5, StaleCloseSettles
    <1>9. Settled(row, ledger'[o], o \in returned')
        BY <1>1, <1>4, <1>6, <1>8 DEF Settled
    <1>10. Listed(o) => Waiting(row, o \in returned')
        BY <1>5, <1>6 DEF Waiting
    <1> QED BY <1>2, <1>4, <1>5, <1>6, <1>7, <1>8, <1>9, <1>10, OrderCommitted
            DEF w, o

LEMMA EndLostDeposit ==
    ASSUME RacesInv, DepositsInv, DepositsApart, NEW r \in Requests,
           NEW fee \in Fees \cup {0}, NEW lostFee \in LostFees, WorkEnds,
           work'[r] = NotWorking, FinishLost(r, fee, lostFee)
    PROVE  GoodStep /\ DepositsInv'
    <1> DEFINE w == work[r]
               o == w.order
               row == LostRow(w.got, fee, lostFee)
    <1>1. /\ w.kind = "lost" /\ fee \in FeesOf(w.got)
          /\ LostTx(o, w.got, fee, lostFee) /\ UNCHANGED Rest
        BY DEF FinishLost, Finish
    <1>2. /\ o \in OrderIds /\ w.got \in OrderRow /\ orders[o] \in OrderRow
          /\ TypeOK /\ Inv
        BY <1>1, AtWork, OrderKindNames, Kept DEF RacesInv, DepositsInv
    <1>3. fee \in Nat /\ lostFee \in Nat /\ MaxOf(fee, lostFee) \in Nat
        BY <1>1, <1>2, FeesAreNat, StoreAssumption DEF MaxOf
    <1>4. /\ CloseDeposit(o, w.got, MaxOf(fee, lostFee))
          /\ orders' = [orders EXCEPT ![o] = row]
          /\ UNCHANGED <<lastId, returned, pending>>
        BY <1>1 DEF LostTx, Rest
    <1>5. /\ w.got.depositStatus = orders[o].depositStatus
          /\ Settled(w.got, ledger[o], o \in returned)
          /\ Listed(o) => w.got.comp = 1 \/ o \notin returned
        BY <1>1 DEF DepositsInv, MayCommit, DepositRead
    <1>6. /\ row \in OrderRow /\ row.depositStatus = 2 /\ row.status = "lost"
          /\ row.depositAmt = w.got.depositAmt /\ row.comp = w.got.comp
        BY <1>2, <1>3, LostRowFacts
    <1> HIDE DEF row
    <1>7. ASSUME NEW q \in Requests, work[q].kind \in OrderKinds,
                 work[q].order = o, work'[q] = work[q]
          PROVE  MayCommit(work[q])'
        <2>1. q # r /\ work[r].kind # "idle"
            BY <1>1, <1>7 DEF NotWorking, OrderKinds, Handlers
        <2>2. work[q].kind # "idle"
            BY <1>7 DEF OrderKinds, Handlers
        <2>3. work[q].kind \notin {"detect", "manual", "decide", "compensate"}
            BY <1>1, <2>1, <2>2, KeptApart
        <2>4. work[q].kind \notin {"lost", "damage"}
            BY <1>1, <1>7, <2>1 DEF DepositsInv, LockedOnce
        <2>5. work[q].kind = "fail" => o \notin returned'
            BY <1>4, <1>7 DEF DepositsInv, MayCommit
        <2> QED BY <1>7, <2>3, <2>4, <2>5 DEF MayCommit
    <1> HIDE DEF w, o
    <1>8. /\ \A p \in OrderIds : p # o => ledger'[p] = ledger[p]
          /\ ledger'[o].freeze = w.got.depositAmt
          /\ ledger'[o].deduct + ledger'[o].release = w.got.depositAmt
          /\ w.got.depositStatus = 2 => ledger'[o] = ledger[o]
        BY <1>2, <1>3, <1>4, <1>5, StaleCloseSettles
    <1>9. Settled(row, ledger'[o], o \in returned')
        BY <1>4, <1>6, <1>8 DEF Settled
    <1>10. Listed(o) => Waiting(row, o \in returned')
        BY <1>4, <1>5, <1>6 DEF Waiting
    <1> QED BY <1>2, <1>4, <1>5, <1>6, <1>7, <1>8, <1>9, <1>10, OrderCommitted
            DEF w, o

LEMMA EndDamageDeposit ==
    ASSUME RacesInv, DepositsInv, DepositsApart, NEW r \in Requests,
           NEW damageFee \in DamageFees, WorkEnds, work'[r] = NotWorking,
           FinishDamage(r, damageFee)
    PROVE  GoodStep /\ DepositsInv'
    <1> DEFINE w == work[r]
               o == w.order
               row == DamagedRow(w.got, damageFee)
    <1>1. /\ w.kind = "damage" /\ DamageTx(o, w.got, damageFee) /\ UNCHANGED Rest
        BY DEF FinishDamage, Finish
    <1>2. /\ o \in OrderIds /\ w.got \in OrderRow /\ damageFee \in Nat
        BY <1>1, AtWork, OrderKindNames, StoreAssumption
    <1>3. /\ orders' = [orders EXCEPT ![o] = row]
          /\ UNCHANGED <<lastId, ledger, returned, pending>>
        BY <1>1 DEF DamageTx, Rest
    <1>4. /\ w.got.depositStatus = orders[o].depositStatus
          /\ Settled(w.got, ledger[o], o \in returned)
          /\ Listed(o) => Waiting(w.got, o \in returned)
        BY <1>1 DEF DepositsInv, MayCommit, DepositRead
    <1>5. /\ row \in OrderRow /\ row.depositStatus = w.got.depositStatus
          /\ row.status = w.got.status
          /\ row.depositAmt = w.got.depositAmt /\ row.comp = w.got.comp
        BY <1>2, DamagedRowFacts
    <1> HIDE DEF row
    <1>6. ASSUME NEW q \in Requests, work[q].kind \in OrderKinds,
                 work[q].order = o, work'[q] = work[q]
          PROVE  MayCommit(work[q])'
        <2>1. q # r /\ work[r].kind # "idle"
            BY <1>1, <1>6 DEF NotWorking, OrderKinds, Handlers
        <2>2. work[q].kind # "idle"
            BY <1>6 DEF OrderKinds, Handlers
        <2>3. work[q].kind \notin {"detect", "manual", "decide", "compensate", "fail"}
            BY <1>1, <2>1, <2>2, KeptApart
        <2>4. work[q].kind \notin {"lost", "damage"}
            BY <1>1, <1>6, <2>1 DEF DepositsInv, LockedOnce
        <2> QED BY <1>6, <2>3, <2>4 DEF MayCommit
    <1> HIDE DEF w, o
    <1>7. Settled(row, ledger'[o], o \in returned')
        BY <1>3, <1>4, <1>5 DEF Settled
    <1>8. Listed(o) => Waiting(row, o \in returned')
        BY <1>3, <1>4, <1>5 DEF Waiting
    <1> QED BY <1>2, <1>3, <1>4, <1>5, <1>6, <1>7, <1>8, OrderCommitted DEF w, o

LEMMA EndDecisionDeposit ==
    ASSUME RacesInv, DepositsInv, DepositsApart, NEW r \in Requests,
           NEW kind \in {"decide", "compensate"}, WorkEnds,
           work'[r] = NotWorking, FinishDecision(r, kind)
    PROVE  GoodStep /\ DepositsInv'
    <1> DEFINE w == work[r]
               o == w.order
               new == Decision(w)
               row == DecidedRow(orders[o], new)
    <1>1. /\ w.kind = kind
          /\ IF w.action = "refund_deposit" THEN CloseDeposit(o, w.got, 0)
             ELSE UNCHANGED <<balance, ledger>>
          /\ orders' = [orders EXCEPT ![o] = DecidedRow(@, new)]
          /\ UNCHANGED <<lastId, returned, pending>>
        BY DEF FinishDecision, Finish, Rest
    <1>2. /\ o \in OrderIds /\ w.got \in OrderRow /\ orders[o] \in OrderRow
          /\ TypeOK /\ Inv /\ orders \in [OrderIds -> OrderRow]
        BY <1>1, AtWork, OrderKindNames, Kept DEF RacesInv, DepositsInv
    <1>3. /\ w.got.depositStatus = orders[o].depositStatus
          /\ Settled(w.got, ledger[o], o \in returned) /\ o \notin returned
          /\ w.got.status \in {"abnormal", "disputed", "lost"}
        BY <1>1 DEF DepositsInv, MayCommit, DepositRead
    <1>4. new \in OrderRow
        BY <1>2, DecisionType
    <1>5. orders' = [orders EXCEPT ![o] = row]
        BY <1>1, <1>2
    <1>6. /\ row \in OrderRow /\ row.status = new.status /\ row.comp = new.comp
          /\ row.depositStatus = new.depositStatus
          /\ row.depositAmt = orders[o].depositAmt
        BY <1>2, <1>4, DecidedDeposit
    <1>7. ASSUME NEW q \in Requests, work[q].kind \in OrderKinds,
                 work[q].order = o, work'[q] = work[q]
          PROVE  MayCommit(work[q])'
        <2>1. q # r /\ work[r].kind # "idle"
            BY <1>1, <1>7, OrderKindNames DEF NotWorking, OrderKinds, Handlers
        <2>2. work[q].kind # "idle"
            BY <1>7 DEF OrderKinds, Handlers
        <2>3. /\ w.kind = "decide"
              /\ work[q].kind \notin {"detect", "manual", "lost", "damage", "compensate"}
            BY <1>1, <2>1, <2>2, KeptApart
        <2>4. work[q].kind # "decide"
            BY <1>7, <2>1, <2>3 DEF DepositsInv, LockedOnce
        <2>5. work[q].kind = "fail" => o \notin returned'
            BY <1>1, <1>3
        <2> QED BY <1>7, <2>3, <2>4, <2>5 DEF MayCommit
    <1>8. \/ /\ w.action = "refund_deposit" /\ new.status = "abnormal_compensated"
             /\ new.comp = 1
             /\ new.depositStatus = IF HoldsDeposit(w.got) THEN 2
                                    ELSE w.got.depositStatus
          \/ /\ w.action # "refund_deposit"
             /\ new.depositStatus = w.got.depositStatus
             /\ \/ new.status = "renting" /\ new.comp = 1
                \/ new.status = w.got.status
        BY <1>2, RefundedRowFacts, DecidedRowFacts, RecreatedRowFacts
           DEF Decision, TriedRow
    <1>9. Settled(orders[o], ledger[o], o \in returned)
        BY <1>2 DEF Inv
    <1>10. /\ row.depositAmt = w.got.depositAmt
           /\ w.got.depositStatus \in {0, 1, 2}
        BY <1>2, <1>3, <1>6, <1>9 DEF Settled, OrderRow
    <1> HIDE DEF new, row
    <1>13. ASSUME \A p \in OrderIds : p # o => ledger'[p] = ledger[p],
                  Settled(row, ledger'[o], o \in returned'),
                  Waiting(row, o \in returned'),
                  orders[o].depositStatus = 2 =>
                     row.depositStatus = 2 /\ ledger'[o] = ledger[o]
           PROVE  GoodStep /\ DepositsInv'
        <2>1. lastId' = lastId /\ returned' = returned /\ pending' = pending
            BY <1>1
        <2> QED BY <1>2, <1>5, <1>6, <1>7, <1>13, <2>1, OrderCommitted
    <1> HIDE DEF w, o
    <1>11. CASE w.action = "refund_deposit"
        <2>1. CloseDeposit(o, w.got, 0)
            BY <1>1, <1>11
        <2>2. /\ \A p \in OrderIds : p # o => ledger'[p] = ledger[p]
              /\ ledger'[o].freeze = w.got.depositAmt
              /\ ledger'[o].deduct + ledger'[o].release = w.got.depositAmt
              /\ HoldsDeposit(w.got) <=> w.got.depositStatus = 1
              /\ w.got.depositStatus = 2 => ledger'[o] = ledger[o]
            BY <1>2, <1>3, <2>1, StaleCloseSettles
        <2>3. /\ row.status = "abnormal_compensated" /\ row.comp = 1
              /\ row.depositStatus = IF w.got.depositStatus = 1 THEN 2
                                     ELSE w.got.depositStatus
            BY <1>6, <1>8, <1>11, <2>2
        <2>4. Settled(row, ledger'[o], o \in returned')
            BY <1>1, <1>3, <1>10, <2>2, <2>3 DEF Settled
        <2>5. Waiting(row, o \in returned')
            BY <2>3 DEF Waiting
        <2>6. orders[o].depositStatus = 2 =>
                 row.depositStatus = 2 /\ ledger'[o] = ledger[o]
            BY <1>3, <2>2, <2>3
        <2> QED BY <1>13, <2>2, <2>4, <2>5, <2>6
    <1>12. CASE w.action # "refund_deposit"
        <2>1. ledger' = ledger
            BY <1>1, <1>12
        <2>2. /\ row.depositStatus = w.got.depositStatus
              /\ \/ row.status = "renting" /\ row.comp = 1
                 \/ row.status = w.got.status
            BY <1>6, <1>8, <1>12
        <2>3. Settled(row, ledger'[o], o \in returned')
            BY <1>1, <1>3, <1>10, <2>1, <2>2 DEF Settled
        <2>4. Waiting(row, o \in returned')
            BY <1>1, <1>3, <2>2 DEF Waiting
        <2> QED BY <1>3, <1>13, <2>1, <2>2, <2>3, <2>4
    <1> QED BY <1>11, <1>12

LEMMA EndFailDeposit ==
    ASSUME RacesInv, DepositsInv, DepositsApart, NEW r \in Requests, WorkEnds,
           work'[r] = NotWorking, FinishFail(r)
    PROVE  GoodStep /\ DepositsInv'
    <1> DEFINE o == work[r].order
               row == AbnormalRow(orders[o])
    <1>1. /\ work[r].kind = "fail"
          /\ orders' = [orders EXCEPT ![o] = AbnormalRow(@)]
          /\ UNCHANGED <<lastId, ledger, returned, pending>>
        BY DEF FinishFail, Finish, Rest
    <1>2. /\ o \in OrderIds /\ orders[o] \in OrderRow /\ TypeOK /\ Inv
          /\ orders \in [OrderIds -> OrderRow]
        BY <1>1, AtWork, OrderKindNames, Kept DEF RacesInv, DepositsInv
    <1>3. o \notin returned
        BY <1>1 DEF DepositsInv, MayCommit
    <1>4. orders' = [orders EXCEPT ![o] = row]
        BY <1>1, <1>2
    <1>5. /\ row \in OrderRow /\ row.status = "abnormal" /\ row.comp = 0
          /\ row.depositStatus = orders[o].depositStatus
          /\ row.depositAmt = orders[o].depositAmt
        BY <1>2, AbnormalRowFacts
    <1> HIDE DEF row
    <1>6. Settled(row, ledger'[o], o \in returned')
        BY <1>1, <1>2, <1>3, <1>5 DEF Inv, Settled
    <1>7. Waiting(row, o \in returned')
        BY <1>1, <1>3, <1>5 DEF Waiting
    <1>8. orders'[o] = row
        BY <1>2, <1>4, <1>5, OrderRewritten
    <1>9. ASSUME NEW q \in Requests, work[q].kind \in OrderKinds,
                 work[q].order = o, work'[q] = work[q]
          PROVE  MayCommit(work[q])'
        <2>1. q # r /\ work[r].kind # "idle"
            BY <1>1, <1>9 DEF NotWorking, OrderKinds, Handlers
        <2>2. work[q].kind # "idle"
            BY <1>9 DEF OrderKinds, Handlers
        <2>3. work[q].kind \notin {"detect", "manual", "damage"}
            BY <1>1, <2>1, <2>2, KeptApart
        <2>4. /\ work'[q].order = o /\ orders'[o] = row
              /\ UNCHANGED <<ledger, returned, pending>>
            BY <1>1, <1>8, <1>9
        <2> HIDE DEF o
        <2>5. Undisturbed(work[q].order)
            BY <1>5, <1>9, <2>4 DEF Undisturbed, Listed
        <2> QED BY <1>9, <2>3, <2>5, StillMayCommit
    <1>10. /\ lastId' = lastId /\ returned' = returned /\ pending' = pending
           /\ ledger' = ledger
        BY <1>1
    <1>11. orders[o].depositStatus = 2 => row.depositStatus = 2
        BY <1>5
    <1>12. row \in OrderRow /\ o \in OrderIds
        BY <1>2, <1>5
    <1> QED BY <1>4, <1>6, <1>7, <1>9, <1>10, <1>11, <1>12, OrderCommitted

\* An order is added, with the balance its user had when he was read.
LEMMA AddedDeposit ==
    ASSUME RacesInv, DepositsInv, NEW u \in Users, NEW b, NEW s, NEW bal,
           NEW status \in {"renting", "abnormal"}, NEW reason, WorkEnds,
           InsertOrder(NewOrder(u, b, s, status, reason), bal),
           UNCHANGED <<returned, pending>>
    PROVE  GoodStep /\ DepositsInv'
    <1> DEFINE row == NewOrder(u, b, s, status, reason)
               l == [freeze |-> DepositFor(u), deduct |-> 0, release |-> 0,
                     refund |-> 0]
               n == lastId + 1
    <1>1. /\ TypeOK /\ Inv /\ lastId \in Nat /\ returned \subseteq OrderIds
          /\ pending \subseteq (OrderIds \X Reports)
        BY Kept DEF RacesInv, DepositsInv, TypeOK
    <1>2. /\ row.status = status /\ row.depositAmt = DepositFor(u)
          /\ row.depositStatus = IF DepositFor(u) > 0 THEN 1 ELSE 0
          /\ DepositFor(u) \in Nat
        BY StoreAssumption DEF NewOrder, DepositFor
    <1>3. /\ lastId' = n
          /\ orders' = [i \in 1..n |-> IF i = n THEN row ELSE orders[i]]
          /\ ledger' = [i \in 1..n |-> IF i = n THEN l ELSE ledger[i]]
        BY <1>2 DEF InsertOrder
    <1> HIDE DEF row
    <1>4. Settled(row, l, FALSE)
        BY <1>2 DEF Settled
    <1> HIDE DEF l
    <1>5. /\ OrderIds' = 1..n /\ n \notin OrderIds
          /\ \A p \in OrderIds' : p \in OrderIds \/ p = n
          /\ \A p \in OrderIds : /\ p \in OrderIds'
                                 /\ orders'[p] = orders[p] /\ ledger'[p] = ledger[p]
          /\ orders'[n] = row /\ ledger'[n] = l
        BY <1>1, <1>3 DEF OrderIds
    <1> HIDE DEF n
    <1>6. \A p \in OrderIds : Keeps(p)
        BY <1>1, <1>5 DEF Keeps, Inv
    <1>7. \A p \in OrderIds' : Settled(orders'[p], ledger'[p], p \in returned')
        <2>1. n \notin returned'
            BY <1>1, <1>5
        <2>2. Settled(orders'[n], ledger'[n], n \in returned')
            BY <1>4, <1>5, <2>1 DEF Settled
        <2> QED BY <1>5, <1>6, <2>2 DEF Keeps
    <1>8. \A p \in OrderIds', q \in Reports :
             <<p, q>> \in pending' => Waiting(orders'[p], p \in returned')
        <2> SUFFICES ASSUME NEW p \in OrderIds', NEW q \in Reports,
                            <<p, q>> \in pending
                     PROVE  Waiting(orders'[p], p \in returned)
            OBVIOUS
        <2>1. p \in OrderIds
            BY <1>1
        <2> QED BY <1>1, <1>5, <2>1 DEF Inv
    <1>9. GoodStep
        BY <1>6, <1>7, <1>8 DEF GoodStep, Inv
    <1>10. \A p \in OrderIds : /\ Undisturbed(p)
                               /\ orders'[p].status = orders[p].status
        BY <1>5 DEF Undisturbed, Listed
    <1> QED BY <1>9, <1>10, NobodyDisturbed

\* A step that leaves orders, deposits, returns and listed orders alone.
LEMMA NoDepositChanged ==
    ASSUME RacesInv, DepositsInv, WorkEnds,
           UNCHANGED <<lastId, orders, ledger, returned, pending>>
    PROVE  GoodStep /\ DepositsInv'
    <1>1. GoodStep
        BY NoOrderChanged DEF RacesInv, DepositsInv
    <1>2. \A p \in OrderIds : /\ Undisturbed(p)
                              /\ orders'[p].status = orders[p].status
        BY DEF Undisturbed, Listed
    <1> QED BY <1>1, <1>2, NobodyDisturbed

LEMMA EndDeposits ==
    ASSUME RacesInv, DepositsInv, DepositsApart, NEW r \in Requests, End(r)
    PROVE  GoodStep /\ DepositsInv'
    <1>0. work = [q \in Requests |-> work[q]]
        BY DEF RacesInv
    <1>1. work' = [work EXCEPT ![r] = NotWorking]
        BY DEF End, FinishDetect, FinishManual, FinishLost, FinishDamage,
               FinishDecision, FinishFail, FinishRent, FinishAbnormal,
               FinishInventory, GiveUp, Finish
    <1>2. WorkEnds /\ work'[r] = NotWorking
        BY <1>0, <1>1 DEF WorkEnds
    <1>3. ASSUME NEW s \in Slots, FinishRent(r, s)
          PROVE  GoodStep /\ DepositsInv'
        <2>1. /\ work[r].kind = "rent"
              /\ InsertOrder(NewOrder(work[r].user, slots[s].battery, s,
                                      "renting", "none"), work[r].bal)
              /\ UNCHANGED <<returned, pending>>
            BY <1>3 DEF FinishRent, Finish
        <2>2. work[r].user \in Users
            BY <2>1, AtWork
        <2> QED BY <1>2, <2>1, <2>2, AddedDeposit
    <1>4. CASE FinishAbnormal(r)
        <2>1. /\ work[r].kind = "abnormal"
              /\ InsertOrder(NewOrder(work[r].user, slots[work[r].slot].battery,
                                      work[r].slot, "abnormal", work[r].reason),
                             work[r].bal)
              /\ UNCHANGED <<returned, pending>>
            BY <1>4 DEF FinishAbnormal, Finish
        <2>2. work[r].user \in Users
            BY <2>1, AtWork
        <2> QED BY <1>2, <2>1, <2>2, AddedDeposit
    <1>5. CASE FinishInventory(r) \/ GiveUp(r)
        <2>1. UNCHANGED <<lastId, orders, ledger, returned, pending>>
            BY <1>5 DEF FinishInventory, GiveUp, Rest, vars
        <2> QED BY <1>2, <2>1, NoDepositChanged
    <1> QED BY <1>2, <1>3, <1>4, <1>5, EndReturnDeposit, EndLostDeposit,
               EndDamageDeposit, EndDecisionDeposit, EndFailDeposit DEF End

LEMMA AloneDeposits ==
    ASSUME RacesInv, DepositsInv, work' = work,
           \/ \E u \in Users, amount \in TopUps : TopUp(u, amount)
           \/ Scan \/ Reported \/ Disputed
    PROVE  GoodStep /\ DepositsInv'
    <1>0. WorkEnds /\ TypeOK /\ Inv
        BY DEF WorkEnds, RacesInv, DepositsInv
    <1>1. GoodStep
        <2>1. Next
            BY DEF Next, Common, Reported, Report, Disputed, Operate
        <2> QED BY <1>0, <2>1, NextGood
    <1>2. CASE \E u \in Users, amount \in TopUps : TopUp(u, amount)
        <2>1. UNCHANGED <<lastId, orders, ledger, returned, pending>>
            BY <1>2 DEF TopUp
        <2> QED BY <1>0, <2>1, NoDepositChanged
    <1>3. CASE Scan
        <2>1. ASSUME NEW u \in Users, NEW s \in Slots, NEW reason,
                     OpenAbnormal(u, s, reason), UNCHANGED <<returned, pending>>
              PROVE  DepositsInv'
            BY <1>0, <2>1, AddedDeposit DEF OpenAbnormal
        <2>2. ASSUME NEW u \in Users, NEW c, NEW req, NEW s, ScanAndRent(u, c, req, s)
              PROVE  DepositsInv'
            BY <1>0, <2>2, AddedDeposit DEF ScanAndRent
        <2>3. ASSUME UNCHANGED <<lastId, orders, ledger, returned, pending>>
              PROVE  DepositsInv'
            BY <1>0, <2>3, NoDepositChanged
        <2> PICK u \in Users, c \in Cabinets, req \in Slots \cup {0} :
                \/ ScanFindsCabinetSilent(u, c, req)
                \/ \E s \in Slots :
                      \/ ScanAndRent(u, c, req, s)
                      \/ \E silent \in BOOLEAN : ScanCabinetDown(u, c, req, s, silent)
                      \/ \E charged \in BOOLEAN : ScanSlotFailed(u, c, req, s, charged)
                      \/ \E charged, silent \in BOOLEAN :
                            ScanBatteryUnusable(u, c, req, s, charged, silent)
            BY <1>3 DEF Scan
        <2>4. ASSUME ScanFindsCabinetSilent(u, c, req)
              PROVE  DepositsInv'
            BY <2>3, <2>4 DEF ScanFindsCabinetSilent
        <2>5. ASSUME NEW s \in Slots,
                     \/ \E silent \in BOOLEAN : ScanCabinetDown(u, c, req, s, silent)
                     \/ \E charged \in BOOLEAN : ScanSlotFailed(u, c, req, s, charged)
                     \/ \E charged, silent \in BOOLEAN :
                           ScanBatteryUnusable(u, c, req, s, charged, silent)
              PROVE  DepositsInv'
            <3>1. /\ UNCHANGED <<returned, pending>>
                  /\ \/ \E reason : OpenAbnormal(u, s, reason)
                     \/ UNCHANGED <<lastId, orders, ledger>>
                BY <2>5 DEF ScanCabinetDown, ScanSlotFailed, ScanBatteryUnusable
            <3> QED BY <2>1, <2>3, <3>1
        <2> QED BY <1>1, <2>2, <2>4, <2>5
    <1>4. CASE Reported
        <2>1. /\ UNCHANGED <<lastId, orders, ledger, returned>>
              /\ \A p \in OrderIds, q \in Reports :
                    <<p, q>> \in pending' => <<p, q>> \in pending \/ Undecided(p)
            BY <1>4 DEF Reported, LockReportOpened, CabinetRecovered
        <2>2. \A p \in OrderIds : /\ Undisturbed(p)
                                  /\ orders'[p].status = orders[p].status
            BY <2>1 DEF Undisturbed, Listed
        <2> QED BY <1>0, <1>1, <2>2, NobodyDisturbed
    <1>5. ASSUME NEW o \in OrderIds, CreateDispute(o)
          PROVE  DepositsInv'
        <2> DEFINE row == DisputedRow(orders[o])
        <2>1. /\ orders' = [orders EXCEPT ![o] = row]
              /\ UNCHANGED <<ledger, returned, pending>>
            BY <1>5 DEF CreateDispute
        <2>2. /\ row \in OrderRow /\ row.status = "disputed"
              /\ row.depositStatus = orders[o].depositStatus
            BY <1>0, Kept, DisputedRowFacts
        <2> HIDE DEF row
        <2>3. orders'[o] = row /\ \A p \in OrderIds : p # o => orders'[p] = orders[p]
            BY <1>0, <2>1, <2>2, OrderRewritten
        <2>4. \A p \in OrderIds :
                 /\ orders'[p].depositStatus = orders[p].depositStatus
                 /\ orders'[p].status = "abnormal" => orders[p].status = "abnormal"
            BY <2>2, <2>3
        <2>5. \A p \in OrderIds : Undisturbed(p)
            BY <2>1, <2>4 DEF Undisturbed, Listed
        <2> QED BY <1>0, <1>1, <2>4, <2>5, NobodyDisturbed
    <1>6. ASSUME NEW d \in 1..filed, NEW refund \in Refunds,
                 NEW adjust \in Fees \cup {0}, HandleDispute(d, adjust, refund)
          PROVE  DepositsInv'
        <2> DEFINE o == disputes[d]
                   row == AdjustedRow(orders[o], adjust, refund)
                   n == ledger[o].refund + refund
        <2>1. /\ o # 0 /\ orders' = [orders EXCEPT ![o] = row]
              /\ ledger' = [ledger EXCEPT ![o].refund = @ + refund]
              /\ UNCHANGED <<returned, pending>>
            BY <1>6 DEF HandleDispute
        <2>2. o \in OrderIds
            BY <1>0, <2>1 DEF TypeOK
        <2>3. refund \in Nat /\ adjust \in Nat
            BY StoreAssumption, LifecycleAssumption
        <2>4. ledger \in [OrderIds -> LedgerRow] /\ orders[o] \in OrderRow
            BY <1>0, <2>2, Kept
        <2>5. ledger' = [ledger EXCEPT ![o].refund = n]
            BY <2>1, <2>4
        <2> HIDE DEF o, n
        <2>6. /\ row \in OrderRow /\ row.status = orders[o].status
              /\ row.depositStatus = orders[o].depositStatus
            BY <2>3, <2>4, AdjustedRowFacts
        <2> HIDE DEF row
        <2>7. orders'[o] = row /\ \A p \in OrderIds : p # o => orders'[p] = orders[p]
            BY <1>0, <2>1, <2>2, <2>6, OrderRewritten
        <2>8. \A p \in OrderIds : /\ orders'[p].depositStatus = orders[p].depositStatus
                                  /\ orders'[p].status = orders[p].status
            BY <2>6, <2>7
        <2>9. \A p \in OrderIds : /\ ledger'[p].freeze = ledger[p].freeze
                                  /\ ledger'[p].deduct = ledger[p].deduct
                                  /\ ledger'[p].release = ledger[p].release
            BY <2>4, <2>5 DEF LedgerRow
        <2>10. \A p \in OrderIds : Undisturbed(p)
            BY <2>1, <2>8, <2>9 DEF Undisturbed, Listed
        <2> QED BY <1>0, <1>1, <2>8, <2>10, NobodyDisturbed
    <1> QED BY <1>1, <1>2, <1>3, <1>4, <1>5, <1>6 DEF Disputed

-----------------------------------------------------------------------------
(* Every step keeps the deposits *)

LEMMA DepositsStep ==
    ASSUME DepositsApart
    PROVE  RacesInv /\ DepositsInv /\ [RacesNext]_raceVars => GoodStep /\ DepositsInv'
    <1> SUFFICES ASSUME RacesInv, DepositsInv, [RacesNext]_raceVars
                 PROVE  GoodStep /\ DepositsInv'
        OBVIOUS
    <1>1. ASSUME NEW r \in Requests, Begin(r) \/ End(r)
          PROVE  GoodStep /\ DepositsInv'
        BY <1>1, BeginDeposits, EndDeposits
    <1>2. CASE UNCHANGED raceVars
        BY <1>2, NoDepositChanged DEF raceVars, vars, WorkEnds
    <1> QED BY <1>1, <1>2, AloneDeposits DEF RacesNext, Alone

LEMMA DepositsStart == RacesInit => DepositsInv
    <1> SUFFICES ASSUME RacesInit PROVE DepositsInv
        OBVIOUS
    <1>1. Inv /\ \A r \in Requests : work[r].kind = "idle"
        BY InitInv DEF RacesInit, NotWorking
    <1> QED BY <1>1 DEF DepositsInv, Together, LockedOnce, MayCommit

LEMMA DepositsHold ==
    ASSUME DepositsApart
    PROVE  RacesSpec => [](RacesInv /\ DepositsInv)
    <1>1. RacesInit => RacesInv /\ DepositsInv
        BY RacesStart, DepositsStart
    <1>2. RacesInv /\ DepositsInv /\ [RacesNext]_raceVars
             => RacesInv' /\ DepositsInv'
        BY RacesStep, DepositsStep
    <1> QED BY <1>1, <1>2, PTL DEF RacesSpec

\* The records of a deposit add up to what deposit_status says although the
\* handlers write rows back that others have changed meanwhile, for any number
\* of requests, orders and users.
THEOREM OverlappingDepositsAreConserved ==
    ASSUME DepositsApart
    PROVE  RacesSpec => []DepositConservation
    <1>1. DepositsInv => DepositConservation
        BY DEF DepositsInv, Inv, Settled, DepositConservation
    <1> QED BY <1>1, DepositsHold, PTL

\* Nor does a second settlement deduct from or release a closed deposit.
THEOREM OverlappingDepositsCloseOnce ==
    ASSUME DepositsApart
    PROVE  RacesSpec => DepositClosesOnce
    <1> DEFINE Once == \A o \in OrderIds :
                          orders[o].depositStatus = 2 =>
                             /\ orders'[o].depositStatus = 2
                             /\ ledger'[o].deduct = ledger[o].deduct
                             /\ ledger'[o].release = ledger[o].release
    <1>1. RacesInv /\ DepositsInv /\ [RacesNext]_raceVars => [Once]_vars
        BY DepositsStep DEF GoodStep, Keeps
    <1>2. RacesSpec => [][Once]_vars
        <2> HIDE DEF Once
        <2> QED BY <1>1, DepositsHold, PTL DEF RacesSpec
    <1> QED BY <1>2 DEF DepositClosesOnce

\* Nor does a decision or a damage report that has read an order before its
\* return write it back as renting.
THEOREM OverlappingReturnsStay ==
    ASSUME DepositsApart
    PROVE  RacesSpec => ReturnedNeverRentsAgain
    <1> DEFINE Over == \A o \in returned : orders'[o].status # "renting"
    <1>1. RacesInv /\ DepositsInv /\ [RacesNext]_raceVars => [Over]_vars
        <2> SUFFICES ASSUME RacesInv, DepositsInv, [RacesNext]_raceVars,
                            NEW o \in returned
                     PROVE  orders'[o].status # "renting"
            OBVIOUS
        <2>1. o \in OrderIds
            BY Kept DEF RacesInv
        <2>2. GoodStep
            BY DepositsStep
        <2>3. Settled(orders'[o], ledger'[o], o \in returned') /\ o \in returned'
            BY <2>1, <2>2 DEF GoodStep, Keeps
        <2> QED BY <2>3 DEF Settled
    <1>2. RacesSpec => [][Over]_vars
        <2> HIDE DEF Over
        <2> QED BY <1>1, DepositsHold, PTL DEF RacesSpec
    <1> QED BY <1>2 DEF ReturnedNeverRentsAgain

=============================================================================
