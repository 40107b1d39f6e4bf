------------------------ MODULE OrderLifecycleProofs ------------------------
(***************************************************************************)
(* Theorems about OrderLifecycle, for every value of its constants.        *)
(***************************************************************************)
EXTENDS OrderLifecycle, TLAPS

-----------------------------------------------------------------------------
(* The rows the transactions write *)

\* A fresh order is well typed, and its deposit is frozen unless the user is
\* deposit-free.
LEMMA NewOrderRow ==
    ASSUME NEW u \in Users, NEW b \in Batteries, NEW s \in Slots,
           NEW status \in OrderStatus, NEW reason \in AbnormalReason
    PROVE  /\ NewOrder(u, b, s, status, reason) \in OrderRow
           /\ NewOrder(u, b, s, status, reason).user = u
           /\ NewOrder(u, b, s, status, reason).battery = b
           /\ NewOrder(u, b, s, status, reason).status = status
           /\ NewOrder(u, b, s, status, reason).comp = 0
           /\ NewOrder(u, b, s, status, reason).depositAmt = DepositFor(u)
           /\ NewOrder(u, b, s, status, reason).depositStatus =
                 IF DepositFor(u) > 0 THEN 1 ELSE 0
           /\ DepositFor(u) \in Nat
    BY StoreAssumption DEF NewOrder, OrderRow, DepositFor

\* What a fee takes and what it leaves add up to the frozen deposit.
LEMMA DepositSplit ==
    ASSUME NEW row \in OrderRow, NEW fee \in Nat
    PROVE  /\ Deducted(row, fee) \in Nat
           /\ Released(row, fee) \in Nat
           /\ HoldsDeposit(row) =>
                 Deducted(row, fee) + Released(row, fee) = row.depositAmt
    BY DEF OrderRow, Deducted, Released, HoldsDeposit

\* A returned order keeps its identity and its deposit amount, closed.
LEMMA ReturnedRowFacts ==
    ASSUME NEW row \in OrderRow, NEW fee \in Nat, NEW status \in OrderStatus,
           NEW x \in Nat
    PROVE  LET r == ReturnedRow(row, fee, status, x)
           IN  /\ r \in OrderRow
               /\ r.depositStatus = 2
               /\ r.status = status
               /\ r.depositAmt = row.depositAmt /\ r.user = row.user
               /\ r.battery = row.battery /\ r.comp = row.comp
    <1> DEFINE r1 == [row EXCEPT !.status = status]
               r2 == [r1 EXCEPT !.totalFee = fee, !.paidFee = fee,
                                !.refundAmt = Released(row, fee),
                                !.exceptionFee = x]
               r3 == [r2 EXCEPT !.depositStatus = 2]
    <1>1. /\ r1 \in OrderRow /\ r1.status = status
          /\ r1.depositAmt = row.depositAmt /\ r1.user = row.user
          /\ r1.battery = row.battery /\ r1.comp = row.comp
        BY DEF OrderRow
    <1> HIDE DEF r1
    <1>2. /\ r2 \in OrderRow /\ r2.status = r1.status
          /\ r2.depositAmt = r1.depositAmt /\ r2.user = r1.user
          /\ r2.battery = r1.battery /\ r2.comp = r1.comp
        BY <1>1, DepositSplit DEF OrderRow
    <1> HIDE DEF r2
    <1>3. /\ r3 \in OrderRow /\ r3.status = r2.status
          /\ r3.depositStatus = 2
          /\ r3.depositAmt = r2.depositAmt /\ r3.user = r2.user
          /\ r3.battery = r2.battery /\ r3.comp = r2.comp
        BY <1>2 DEF OrderRow
    <1>4. ReturnedRow(row, fee, status, x) = r3
        BY DEF ReturnedRow, r1, r2, r3
    <1> QED BY <1>1, <1>2, <1>3, <1>4

\* A lost order, likewise.
LEMMA LostRowFacts ==
    ASSUME NEW row \in OrderRow, NEW fee \in Nat, NEW lostFee \in Nat
    PROVE  LET r == LostRow(row, fee, lostFee)
           IN  /\ r \in OrderRow
               /\ r.depositStatus = 2
               /\ r.status = "lost"
               /\ r.depositAmt = row.depositAmt /\ r.user = row.user
               /\ r.battery = row.battery /\ r.comp = row.comp
    <1> DEFINE t == MaxOf(fee, lostFee)
               r1 == [row EXCEPT !.status = "lost"]
               r2 == [r1 EXCEPT !.totalFee = t, !.exceptionFee = lostFee,
                                !.refundAmt = Released(row, t)]
               r3 == [r2 EXCEPT !.depositStatus = 2]
    <1>0. t \in Nat /\ Released(row, t) \in Nat
        BY DepositSplit DEF MaxOf
    <1> HIDE DEF t
    <1>1. /\ r1 \in OrderRow /\ r1.status = "lost"
          /\ r1.depositAmt = row.depositAmt /\ r1.user = row.user
          /\ r1.battery = row.battery /\ r1.comp = row.comp
        BY DEF OrderRow, OrderStatus
    <1> HIDE DEF r1
    <1>2. /\ r2 \in OrderRow /\ r2.status = r1.status
          /\ r2.depositAmt = r1.depositAmt /\ r2.user = r1.user
          /\ r2.battery = r1.battery /\ r2.comp = r1.comp
        BY <1>0, <1>1 DEF OrderRow
    <1> HIDE DEF r2
    <1>3. /\ r3 \in OrderRow /\ r3.status = r2.status
          /\ r3.depositStatus = 2
          /\ r3.depositAmt = r2.depositAmt /\ r3.user = r2.user
          /\ r3.battery = r2.battery /\ r3.comp = r2.comp
        BY <1>2 DEF OrderRow
    <1>4. LostRow(row, fee, lostFee) = r3
        BY DEF LostRow, r1, r2, r3, t
    <1> QED BY <1>1, <1>2, <1>3, <1>4

\* Damage only changes what is billed.
LEMMA DamagedRowFacts ==
    ASSUME NEW row \in OrderRow, NEW x \in Nat
    PROVE  LET r == DamagedRow(row, x)
           IN  /\ r \in OrderRow
               /\ r.status = row.status /\ r.depositStatus = row.depositStatus
               /\ r.depositAmt = row.depositAmt /\ r.user = row.user
               /\ r.battery = row.battery /\ r.comp = row.comp
    <1> DEFINE a == row.exceptionFee + x
               t == row.totalFee + x
               r1 == [row EXCEPT !.exceptionFee = a, !.totalFee = t]
    <1>1. a \in Nat /\ t \in Nat
        BY DEF OrderRow
    <1>2. DamagedRow(row, x) = r1
        BY DEF DamagedRow, OrderRow
    <1> HIDE DEF a, t
    <1>3. /\ r1 \in OrderRow
          /\ r1.status = row.status /\ r1.depositStatus = row.depositStatus
          /\ r1.depositAmt = row.depositAmt /\ r1.user = row.user
          /\ r1.battery = row.battery /\ r1.comp = row.comp
        BY <1>1 DEF OrderRow
    <1> QED BY <1>2, <1>3

\* So does settling a dispute.
LEMMA AdjustedRowFacts ==
    ASSUME NEW row \in OrderRow, NEW x \in Nat, NEW y \in Nat
    PROVE  LET r == AdjustedRow(row, x, y)
           IN  /\ r \in OrderRow
               /\ r.status = row.status /\ r.depositStatus = row.depositStatus
               /\ r.depositAmt = row.depositAmt /\ r.user = row.user
               /\ r.battery = row.battery /\ r.comp = row.comp
    <1> DEFINE t == IF x > row.totalFee THEN 0 ELSE row.totalFee - x
               a == row.refundAmt + y
               r1 == [row EXCEPT !.totalFee = t, !.refundAmt = a]
    <1>1. a \in Nat /\ t \in Nat
        BY DEF OrderRow
    <1>2. AdjustedRow(row, x, y) = r1
        BY DEF AdjustedRow, OrderRow
    <1> HIDE DEF a, t
    <1>3. /\ r1 \in OrderRow
          /\ r1.status = row.status /\ r1.depositStatus = row.depositStatus
          /\ r1.depositAmt = row.depositAmt /\ r1.user = row.user
          /\ r1.battery = row.battery /\ r1.comp = row.comp
        BY <1>1 DEF OrderRow
    <1> QED BY <1>2, <1>3

\* A refunded order is compensated, and its deposit closed if it was frozen.
LEMMA RefundedRowFacts ==
    ASSUME NEW row \in OrderRow
    PROVE  LET r == RefundedRow(row, row)
           IN  /\ r \in OrderRow
               /\ r.status = "abnormal_compensated" /\ r.comp = 1
               /\ r.depositStatus = IF HoldsDeposit(row) THEN 2
                                    ELSE row.depositStatus
               /\ r.depositAmt = row.depositAmt /\ r.user = row.user
               /\ r.battery = row.battery
    <1> DEFINE d == IF HoldsDeposit(row) THEN 2 ELSE row.depositStatus
               a == IF HoldsDeposit(row) THEN row.depositAmt
                    ELSE row.refundAmt
               r1 == [row EXCEPT !.status = "abnormal_compensated"]
               r2 == [r1 EXCEPT !.depositStatus = d]
               r3 == [r2 EXCEPT !.refundAmt = a]
               r4 == [r3 EXCEPT !.comp = 1]
    <1>0. d \in 0..2 /\ a \in Nat
        BY DEF OrderRow
    <1> HIDE DEF d, a
    <1>1. /\ r1 \in OrderRow /\ r1.status = "abnormal_compensated"
          /\ r1.depositAmt = row.depositAmt /\ r1.user = row.user
          /\ r1.battery = row.battery
        BY DEF OrderRow, OrderStatus
    <1> HIDE DEF r1
    <1>2. /\ r2 \in OrderRow /\ r2.status = r1.status
          /\ r2.depositStatus = d
          /\ r2.depositAmt = r1.depositAmt /\ r2.user = r1.user
          /\ r2.battery = r1.battery
        BY <1>0, <1>1 DEF OrderRow
    <1> HIDE DEF r2
    <1>3. /\ r3 \in OrderRow /\ r3.status = r2.status
          /\ r3.depositStatus = r2.depositStatus
          /\ r3.depositAmt = r2.depositAmt /\ r3.user = r2.user
          /\ r3.battery = r2.battery
        BY <1>0, <1>2 DEF OrderRow
    <1> HIDE DEF r3
    <1>4. /\ r4 \in OrderRow /\ r4.status = r3.status /\ r4.comp = 1
          /\ r4.depositStatus = r3.depositStatus
          /\ r4.depositAmt = r3.depositAmt /\ r4.user = r3.user
          /\ r4.battery = r3.battery
        BY <1>3 DEF OrderRow
    <1>5. RefundedRow(row, row) = r4
        BY DEF RefundedRow, r1, r2, r3, r4, d, a
    <1> QED BY <1>1, <1>2, <1>3, <1>4, <1>5 DEF d

\* An order that turns abnormal keeps its deposit as it is and is undecided.
LEMMA AbnormalRowFacts ==
    ASSUME NEW row \in OrderRow
    PROVE  LET r == AbnormalRow(row)
           IN  /\ r \in OrderRow
               /\ r.status = "abnormal" /\ r.comp = 0
               /\ r.depositStatus = row.depositStatus
               /\ r.depositAmt = row.depositAmt /\ r.user = row.user
               /\ r.battery = row.battery
    <1> DEFINE r1 == [row EXCEPT !.status = "abnormal"]
               r2 == [r1 EXCEPT !.reason = "unlock_failed"]
               r3 == [r2 EXCEPT !.started = FALSE]
               r4 == [r3 EXCEPT !.comp = 0]
    <1>1. /\ r1 \in OrderRow /\ r1.status = "abnormal"
          /\ r1.depositStatus = row.depositStatus
          /\ r1.depositAmt = row.depositAmt /\ r1.user = row.user
          /\ r1.battery = row.battery
        BY DEF OrderRow, OrderStatus
    <1> HIDE DEF r1
    <1>2. /\ r2 \in OrderRow /\ r2.status = r1.status
          /\ r2.depositStatus = r1.depositStatus
          /\ r2.depositAmt = r1.depositAmt /\ r2.user = r1.user
          /\ r2.battery = r1.battery
        BY <1>1 DEF OrderRow, AbnormalReason
    <1> HIDE DEF r2
    <1>3. /\ r3 \in OrderRow /\ r3.status = r2.status
          /\ r3.depositStatus = r2.depositStatus
          /\ r3.depositAmt = r2.depositAmt /\ r3.user = r2.user
          /\ r3.battery = r2.battery
        BY <1>2 DEF OrderRow
    <1> HIDE DEF r3
    <1>4. /\ r4 \in OrderRow /\ r4.status = r3.status /\ r4.comp = 0
          /\ r4.depositStatus = r3.depositStatus
          /\ r4.depositAmt = r3.depositAmt /\ r4.user = r3.user
          /\ r4.battery = r3.battery
        BY <1>3 DEF OrderRow
    <1>5. AbnormalRow(row) = r4
        BY DEF AbnormalRow, r1, r2, r3, r4
    <1> QED BY <1>1, <1>2, <1>3, <1>4, <1>5

\* A recreated order rents, with the deposit it had.
LEMMA RecreatedRowFacts ==
    ASSUME NEW row \in OrderRow
    PROVE  LET r == RecreatedRow(row)
           IN  /\ r \in OrderRow
               /\ r.status = "renting" /\ r.comp = 1
               /\ r.depositStatus = row.depositStatus
               /\ r.depositAmt = row.depositAmt /\ r.user = row.user
               /\ r.battery = row.battery
    <1> DEFINE r1 == [row EXCEPT !.status = "renting"]
               r2 == [r1 EXCEPT !.started = TRUE]
               r3 == [r2 EXCEPT !.comp = 1]
    <1>1. /\ r1 \in OrderRow /\ r1.status = "renting"
          /\ r1.depositStatus = row.depositStatus
          /\ r1.depositAmt = row.depositAmt /\ r1.user = row.user
          /\ r1.battery = row.battery
        BY DEF OrderRow, OrderStatus
    <1> HIDE DEF r1
    <1>2. /\ r2 \in OrderRow /\ r2.status = r1.status
          /\ r2.depositStatus = r1.depositStatus
          /\ r2.depositAmt = r1.depositAmt /\ r2.user = r1.user
          /\ r2.battery = r1.battery
        BY <1>1 DEF OrderRow
    <1> HIDE DEF r2
    <1>3. /\ r3 \in OrderRow /\ r3.status = r2.status /\ r3.comp = 1
          /\ r3.depositStatus = r2.depositStatus
          /\ r3.depositAmt = r2.depositAmt /\ r3.user = r2.user
          /\ r3.battery = r2.battery
        BY <1>2 DEF OrderRow
    <1>4. RecreatedRow(row) = r3
        BY DEF RecreatedRow, r1, r2, r3
    <1> QED BY <1>1, <1>2, <1>3, <1>4

\* Decisions that only set compensation_status, and a dispute, keep the rest.
LEMMA DecidedRowFacts ==
    ASSUME NEW row \in OrderRow
    PROVE  /\ ReviewedRow(row) \in OrderRow
           /\ ReviewedRow(row).status = row.status
           /\ ReviewedRow(row).comp = 2
           /\ ReviewedRow(row).depositStatus = row.depositStatus
           /\ ReviewedRow(row).depositAmt = row.depositAmt
           /\ ReviewedRow(row).user = row.user
           /\ ReviewedRow(row).battery = row.battery
           /\ LeftOpenRow(row) \in OrderRow
           /\ LeftOpenRow(row).status = row.status
           /\ LeftOpenRow(row).comp = 0
           /\ LeftOpenRow(row).depositStatus = row.depositStatus
           /\ LeftOpenRow(row).depositAmt = row.depositAmt
           /\ LeftOpenRow(row).user = row.user
           /\ LeftOpenRow(row).battery = row.battery
    BY DEF ReviewedRow, LeftOpenRow, OrderRow

LEMMA DisputedRowFacts ==
    ASSUME NEW row \in OrderRow
    PROVE  LET r == DisputedRow(row)
           IN  /\ r \in OrderRow
               /\ r.status = "disputed" /\ r.comp = row.comp
               /\ r.depositStatus = row.depositStatus
               /\ r.depositAmt = row.depositAmt /\ r.user = row.user
               /\ r.battery = row.battery
    BY DEF DisputedRow, OrderRow, OrderStatus

-----------------------------------------------------------------------------
(* The transactions *)

\* Inserting a fresh order keeps the tables well typed, as long as its owner
\* can afford the deposit, and leaves every other order alone.
LEMMA InsertFacts ==
    ASSUME StoreTypeOK, NEW u \in Users, NEW b \in Batteries, NEW s \in Slots,
           NEW status \in OrderStatus, NEW reason \in AbnormalReason,
           CanAfford(u),
           InsertOrder(NewOrder(u, b, s, status, reason), balance[u])
    PROVE  /\ lastId' = lastId + 1 /\ lastId' \in Nat
           /\ OrderIds \subseteq OrderIds'
           /\ \A o \in OrderIds' : o \notin OrderIds => o = lastId'
           /\ balance' \in [Users -> Nat]
           /\ orders' \in [OrderIds' -> OrderRow]
           /\ ledger' \in [OrderIds' -> LedgerRow]
           /\ \A o \in OrderIds : orders'[o] = orders[o] /\ ledger'[o] = ledger[o]
           /\ orders'[lastId'] = NewOrder(u, b, s, status, reason)
           /\ ledger'[lastId'] = [freeze |-> DepositFor(u), deduct |-> 0,
                                  release |-> 0, refund |-> 0]
    <1> DEFINE row == NewOrder(u, b, s, status, reason)
    <1>1. /\ row \in OrderRow /\ row.user = u
          /\ row.depositAmt = DepositFor(u) /\ DepositFor(u) \in Nat
        BY NewOrderRow
    <1> DEFINE l == [freeze |-> DepositFor(u), deduct |-> 0, release |-> 0,
                     refund |-> 0]
    <1>2. l \in LedgerRow
        BY <1>1 DEF LedgerRow
    <1>3. /\ lastId \in Nat /\ balance \in [Users -> Nat]
          /\ orders \in [OrderIds -> OrderRow]
          /\ ledger \in [OrderIds -> LedgerRow]
        BY DEF StoreTypeOK
    <1>4. /\ lastId' = lastId + 1
          /\ orders' = [i \in 1..(lastId + 1) |-> IF i = lastId + 1 THEN row
                                                  ELSE orders[i]]
          /\ ledger' = [i \in 1..(lastId + 1) |-> IF i = lastId + 1 THEN l
                                                  ELSE ledger[i]]
          /\ balance' = IF DepositFor(u) > 0
                        THEN [balance EXCEPT ![u] = balance[u] - DepositFor(u)]
                        ELSE balance
        BY <1>1 DEF InsertOrder
    <1>5. balance' \in [Users -> Nat] /\ lastId' \in Nat
        BY <1>1, <1>3, <1>4 DEF CanAfford
    <1> HIDE DEF row, l
    <1>6. /\ orders' \in [OrderIds' -> OrderRow]
          /\ ledger' \in [OrderIds' -> LedgerRow]
          /\ OrderIds \subseteq OrderIds'
          /\ \A o \in OrderIds' : o \notin OrderIds => o = lastId'
          /\ \A o \in OrderIds : orders'[o] = orders[o] /\ ledger'[o] = ledger[o]
          /\ orders'[lastId'] = row /\ ledger'[lastId'] = l
        BY <1>1, <1>2, <1>3, <1>4 DEF OrderIds
    <1>7. lastId' = lastId + 1
        BY <1>4
    <1> QED BY <1>5, <1>6, <1>7 DEF row, l

\* Closing the deposit of an order moves all of it, or nothing if none was
\* frozen, and touches no other order.
LEMMA CloseDepositFacts ==
    ASSUME StoreTypeOK, NEW o \in OrderIds, NEW fee \in Nat,
           CloseDeposit(o, orders[o], fee)
    PROVE  /\ balance' \in [Users -> Nat]
           /\ ledger' \in [OrderIds -> LedgerRow]
           /\ \A p \in OrderIds : p # o => ledger'[p] = ledger[p]
           /\ ledger'[o].freeze = ledger[o].freeze
           /\ HoldsDeposit(orders[o]) =>
                 ledger'[o].deduct + ledger'[o].release =
                    ledger[o].deduct + ledger[o].release + orders[o].depositAmt
           /\ ~HoldsDeposit(orders[o]) => ledger'[o] = ledger[o]
    <1> DEFINE row == orders[o]
               d == Deducted(row, fee)
               r == Released(row, fee)
               a == ledger[o].deduct + d
               c == ledger[o].release + r
               l == [ledger[o] EXCEPT !.deduct = a, !.release = c]
    <1>1. /\ row \in OrderRow /\ row.user \in Users
          /\ balance \in [Users -> Nat] /\ ledger \in [OrderIds -> LedgerRow]
        BY DEF StoreTypeOK, OrderRow
    <1>2. /\ d \in Nat /\ r \in Nat
          /\ HoldsDeposit(row) => d + r = row.depositAmt
        BY <1>1, DepositSplit
    <1>3. CASE HoldsDeposit(row)
        <2>1. /\ balance' = [balance EXCEPT ![row.user] = @ + r]
              /\ ledger' = [ledger EXCEPT ![o] = l]
            BY <1>3, <1>1 DEF CloseDeposit, a, c, l
        <2> HIDE DEF d, r, row
        <2>0. /\ a \in Nat /\ c \in Nat
              /\ ledger[o].deduct \in Nat /\ ledger[o].release \in Nat
            BY <1>1, <1>2 DEF LedgerRow
        <2>6. a + c = ledger[o].deduct + ledger[o].release + row.depositAmt
            BY <2>0, <1>2, <1>3
        <2> HIDE DEF a, c
        <2>2. /\ l \in LedgerRow /\ l.freeze = ledger[o].freeze
              /\ l.deduct = a /\ l.release = c
            BY <1>1, <2>0 DEF LedgerRow
        <2> HIDE DEF l
        <2>3. balance' \in [Users -> Nat]
            BY <2>1, <1>1, <1>2
        <2>4. /\ ledger' \in [OrderIds -> LedgerRow]
              /\ \A p \in OrderIds : p # o => ledger'[p] = ledger[p]
              /\ ledger'[o] = l
            BY <2>1, <2>2, <1>1
        <2>5. l.deduct + l.release =
                 ledger[o].deduct + ledger[o].release + row.depositAmt
            BY <2>2, <2>6
        <2> QED BY <2>2, <2>3, <2>4, <2>5, <1>3 DEF row
    <1>4. CASE ~HoldsDeposit(row)
        BY <1>4, <1>1 DEF CloseDeposit
    <1> QED BY <1>3, <1>4

-----------------------------------------------------------------------------
(* Type correctness *)

USE StoreAssumption, LifecycleAssumption

\* What opening an abnormal order does, in the terms InsertFacts needs.
LEMMA AbnormalIsInsert ==
    ASSUME TypeOK, NEW u \in Users, NEW s \in Slots,
           NEW reason \in AbnormalReason, OpenAbnormal(u, s, reason)
    PROVE  /\ slots[s].battery \in Batteries
           /\ CanAfford(u)
           /\ InsertOrder(NewOrder(u, slots[s].battery, s, "abnormal", reason),
                          balance[u])
           /\ attempted' = attempted \cup {s}
    <1>1. slots[s] \in SlotRow
        BY DEF TypeOK, StoreTypeOK
    <1> QED BY <1>1 DEF OpenAbnormal, CanOpenAbnormal, SlotRow

\* The tables that only refer to order ids stay well typed when orders are
\* added.
LEMMA MoreOrders ==
    ASSUME TypeOK, OrderIds \subseteq OrderIds',
           UNCHANGED <<returned, pending, filed, disputes>>
    PROVE  /\ returned' \subseteq OrderIds'
           /\ pending' \subseteq (OrderIds' \X Reports)
           /\ filed' \in Nat
           /\ disputes' \in [1..filed' -> OrderIds' \cup {0}]
    <1>1. /\ returned \subseteq OrderIds
          /\ pending \subseteq (OrderIds \X Reports)
          /\ filed \in Nat
          /\ disputes \in [1..filed -> OrderIds \cup {0}]
        BY DEF TypeOK, StoreTypeOK
    <1>2. disputes \in [1..filed -> OrderIds' \cup {0}]
        BY <1>1
    <1> QED BY <1>1, <1>2

LEMMA ScanType ==
    ASSUME TypeOK, Scan
    PROVE  TypeOK'
    <1>0. /\ balance \in [Users -> Nat] /\ slots \in [Slots -> SlotRow]
          /\ batteries \in [Batteries -> BatteryStatus]
          /\ credited \in [Users -> Nat]
          /\ cabinets \in [Cabinets -> CabinetStatus]
          /\ attempted \subseteq Slots /\ StoreTypeOK
        BY DEF TypeOK, StoreTypeOK
    <1> PICK u \in Users, c \in Cabinets, req \in Slots \cup {0} :
            \/ ScanFindsCabinetSilent(u, c, req)
            \/ \E s \in Slots :
                  \/ ScanAndRent(u, c, req, s)
                  \/ \E silent \in BOOLEAN : ScanCabinetDown(u, c, req, s, silent)
                  \/ \E charged \in BOOLEAN : ScanSlotFailed(u, c, req, s, charged)
                  \/ \E charged, silent \in BOOLEAN :
                        ScanBatteryUnusable(u, c, req, s, charged, silent)
        BY DEF Scan
    <1>1. ASSUME NEW s \in Slots, NEW reason \in AbnormalReason,
                 OpenAbnormal(u, s, reason),
                 UNCHANGED <<returned, batteries, credited, pending, filed,
                             disputes>>,
                 slots' \in [Slots -> SlotRow],
                 cabinets' \in [Cabinets -> CabinetStatus]
          PROVE  TypeOK'
        <2>1. /\ slots[s].battery \in Batteries
              /\ CanAfford(u)
              /\ InsertOrder(NewOrder(u, slots[s].battery, s, "abnormal", reason),
                             balance[u])
              /\ attempted' = attempted \cup {s}
            BY <1>1, AbnormalIsInsert
        <2>2. /\ lastId' \in Nat /\ OrderIds \subseteq OrderIds'
              /\ balance' \in [Users -> Nat]
              /\ orders' \in [OrderIds' -> OrderRow]
              /\ ledger' \in [OrderIds' -> LedgerRow]
            BY <1>0, <2>1, InsertFacts DEF OrderStatus
        <2>3. /\ returned' \subseteq OrderIds'
              /\ pending' \subseteq (OrderIds' \X Reports)
              /\ filed' \in Nat
              /\ disputes' \in [1..filed' -> OrderIds' \cup {0}]
            BY <1>1, <2>2, MoreOrders
        <2> QED BY <1>0, <1>1, <2>1, <2>2, <2>3 DEF TypeOK, StoreTypeOK
    <1>2. [cabinets EXCEPT ![c] = "offline"] \in [Cabinets -> CabinetStatus]
        BY <1>0 DEF CabinetStatus
    <1>8. [cabinets EXCEPT ![c] = IF @ = "online" THEN "offline" ELSE @]
              \in [Cabinets -> CabinetStatus]
        BY <1>0 DEF CabinetStatus
    <1>3. CASE ScanFindsCabinetSilent(u, c, req)
        <2>1. cabinets' \in [Cabinets -> CabinetStatus]
            BY <1>0, <1>3, <1>2 DEF ScanFindsCabinetSilent
        <2> QED BY <1>3, <2>1 DEF ScanFindsCabinetSilent, TypeOK, StoreTypeOK,
                                  OrderIds
    <1>4. ASSUME NEW s \in Slots, ScanAndRent(u, c, req, s)
          PROVE  TypeOK'
        <2>1. slots[s].battery \in Batteries
            BY <1>0, <1>4 DEF ScanAndRent, ScanOutcome, SlotRow
        <2>2. /\ lastId' \in Nat /\ OrderIds \subseteq OrderIds'
              /\ balance' \in [Users -> Nat]
              /\ orders' \in [OrderIds' -> OrderRow]
              /\ ledger' \in [OrderIds' -> LedgerRow]
            BY <1>0, <1>4, <2>1, InsertFacts
               DEF ScanAndRent, OrderStatus, AbnormalReason
        <2>3. /\ returned' \subseteq OrderIds'
              /\ pending' \subseteq (OrderIds' \X Reports)
              /\ filed' \in Nat
              /\ disputes' \in [1..filed' -> OrderIds' \cup {0}]
            BY <1>4, <2>2, MoreOrders DEF ScanAndRent
        <2>4. slots' \in [Slots -> SlotRow]
            BY <1>0, <1>4 DEF ScanAndRent, SlotRow, SlotStatus
        <2>5. batteries' \in [Batteries -> BatteryStatus]
            BY <1>0, <1>4, <2>1 DEF ScanAndRent, BatteryStatus
        <2>6. /\ credited' = credited /\ cabinets' = cabinets
              /\ attempted' \subseteq Slots
            BY <1>0, <1>4 DEF ScanAndRent
        <2> QED BY <1>0, <2>2, <2>3, <2>4, <2>5, <2>6 DEF TypeOK, StoreTypeOK
    <1>5. ASSUME NEW s \in Slots, NEW silent \in BOOLEAN,
                 ScanCabinetDown(u, c, req, s, silent)
          PROVE  TypeOK'
        BY <1>0, <1>1, <1>5, <1>8 DEF ScanCabinetDown, AbnormalReason
    <1>6. ASSUME NEW s \in Slots, NEW charged \in BOOLEAN,
                 ScanSlotFailed(u, c, req, s, charged)
          PROVE  TypeOK'
        BY <1>0, <1>1, <1>6 DEF ScanSlotFailed, AbnormalReason
    <1>7. ASSUME NEW s \in Slots, NEW charged \in BOOLEAN, NEW silent \in BOOLEAN,
                 ScanBatteryUnusable(u, c, req, s, charged, silent)
          PROVE  TypeOK'
        <2>1. slots' \in [Slots -> SlotRow]
            BY <1>0, <1>7 DEF ScanBatteryUnusable, SlotRow, SlotStatus
        <2>2. cabinets' \in [Cabinets -> CabinetStatus]
            BY <1>0, <1>2, <1>7 DEF ScanBatteryUnusable
        <2>3. CASE OpenAbnormal(u, s, "unlock_failed")
            BY <1>1, <1>7, <2>1, <2>2, <2>3 DEF ScanBatteryUnusable, AbnormalReason
        <2>4. CASE UNCHANGED <<balance, lastId, orders, ledger, attempted>>
            BY <1>7, <2>1, <2>2, <2>4
               DEF ScanBatteryUnusable, TypeOK, StoreTypeOK, OrderIds
        <2> QED BY <1>7, <2>3, <2>4 DEF ScanBatteryUnusable
    <1> QED BY <1>3, <1>4, <1>5, <1>6, <1>7

\* The orders table after one row was rewritten.
LEMMA OrderRewritten ==
    ASSUME TypeOK, NEW o \in OrderIds, NEW r \in OrderRow,
           orders' = [orders EXCEPT ![o] = r]
    PROVE  /\ orders' \in [OrderIds -> OrderRow]
           /\ orders'[o] = r
           /\ \A p \in OrderIds : p # o => orders'[p] = orders[p]
    BY DEF TypeOK, StoreTypeOK

\* The typing of everything a handler leaves alone.
LEMMA Kept ==
    ASSUME TypeOK
    PROVE  /\ balance \in [Users -> Nat] /\ lastId \in Nat
           /\ orders \in [OrderIds -> OrderRow]
           /\ ledger \in [OrderIds -> LedgerRow]
           /\ returned \subseteq OrderIds
           /\ slots \in [Slots -> SlotRow]
           /\ batteries \in [Batteries -> BatteryStatus]
           /\ \A o \in OrderIds : /\ orders[o] \in OrderRow
                                  /\ orders[o].user \in Users
                                  /\ orders[o].battery \in Batteries
                                  /\ orders[o].slot \in Slots
                                  /\ orders[o].exceptionFee \in Nat
                                  /\ ledger[o] \in LedgerRow
    BY DEF TypeOK, StoreTypeOK, OrderRow

\* A step that keeps the ids, and writes only tables of the store.
LEMMA StoreStepType ==
    ASSUME TypeOK, UNCHANGED lastId,
           UNCHANGED <<credited, cabinets, attempted, filed, disputes>>,
           balance' \in [Users -> Nat],
           orders' \in [OrderIds -> OrderRow],
           ledger' \in [OrderIds -> LedgerRow],
           returned' \subseteq OrderIds,
           slots' \in [Slots -> SlotRow],
           batteries' \in [Batteries -> BatteryStatus],
           pending' \subseteq pending
    PROVE  TypeOK'
    BY DEF TypeOK, StoreTypeOK, OrderIds

LEMMA ReportType ==
    ASSUME TypeOK, Report
    PROVE  TypeOK'
    <1>0. /\ slots \in [Slots -> SlotRow] /\ orders \in [OrderIds -> OrderRow]
          /\ cabinets \in [Cabinets -> CabinetStatus]
          /\ pending \subseteq (OrderIds \X Reports)
        BY DEF TypeOK, StoreTypeOK
    <1>1. ASSUME NEW s \in Slots, LockReportOpened(s)
          PROVE  TypeOK'
        <2>1. slots' \in [Slots -> SlotRow]
            BY <1>0, <1>1 DEF LockReportOpened, SlotRow, SlotStatus
        <2>2. pending' \subseteq (OrderIds \X Reports)
            BY <1>0, <1>1 DEF LockReportOpened, Reports
        <2> QED BY <1>1, <2>1, <2>2
                DEF LockReportOpened, TypeOK, StoreTypeOK, OrderIds
    <1>2. ASSUME NEW s \in Slots, NEW old \in SUBSET OrderIds,
                 LockReportFailed(s, old)
          PROVE  TypeOK'
        <2>1. orders' \in [OrderIds -> OrderRow]
            BY <1>0, <1>2, AbnormalRowFacts DEF LockReportFailed
        <2> QED BY <1>2, <2>1, Kept, StoreStepType DEF LockReportFailed, Rest
    <1>3. ASSUME NEW s \in Slots, NEW occupied \in BOOLEAN,
                 NEW locked \in BOOLEAN, NEW b \in Batteries \cup {NoBattery},
                 SlotReport(s, occupied, b, locked)
          PROVE  TypeOK'
        <2>1. slots' \in [Slots -> SlotRow]
            BY <1>0, <1>3 DEF SlotReport, SlotRow, SlotStatus
        <2> QED BY <1>3, <2>1, Kept, StoreStepType DEF SlotReport, Rest
    <1>4. ASSUME NEW c \in Cabinets, HeartbeatInOrder(c)
          PROVE  TypeOK'
        <2>1. cabinets' \in [Cabinets -> CabinetStatus]
            BY <1>0, <1>4 DEF HeartbeatInOrder, CabinetStatus
        <2> QED BY <1>4, <2>1
                DEF HeartbeatInOrder, TypeOK, StoreTypeOK, OrderIds
    <1>5. ASSUME NEW c \in Cabinets, CabinetRecovered(c)
          PROVE  TypeOK'
        <2>1. cabinets' \in [Cabinets -> CabinetStatus]
            BY <1>0, <1>5 DEF CabinetRecovered, CabinetStatus
        <2>2. pending' \subseteq (OrderIds \X Reports)
            BY <1>0, <1>5 DEF CabinetRecovered, Reports
        <2> QED BY <1>5, <2>1, <2>2
                DEF CabinetRecovered, TypeOK, StoreTypeOK, OrderIds
    <1> QED BY <1>1, <1>2, <1>3, <1>4, <1>5 DEF Report

\* Closing a deposit as compensation, as typing sees it.
LEMMA RefundType ==
    ASSUME TypeOK, NEW o \in OrderIds, RefundTx(o, orders[o])
    PROVE  /\ balance' \in [Users -> Nat]
           /\ orders' \in [OrderIds -> OrderRow]
           /\ ledger' \in [OrderIds -> LedgerRow]
    <1>1. StoreTypeOK /\ orders[o] \in OrderRow
        BY Kept DEF TypeOK
    <1>2. RefundedRow(orders[o], orders[o]) \in OrderRow
        BY <1>1, RefundedRowFacts
    <1> QED BY <1>1, <1>2, CloseDepositFacts, OrderRewritten DEF RefundTx

LEMMA CompensateType ==
    ASSUME TypeOK, Compensate
    PROVE  TypeOK'
    <1>1. ASSUME NEW o \in OrderIds, NEW r \in Reports, NEW aged \in BOOLEAN,
                 NEW expired \in BOOLEAN, DecideListed(o, r, aged, expired)
          PROVE  TypeOK'
        <2> DEFINE action == IF expired THEN "manual_review" ELSE Suggested(o, aged)
        <2>1. /\ pending' \subseteq pending /\ Decide(o, action)
              /\ UNCHANGED <<credited, cabinets, attempted, filed, disputes>>
            BY <1>1 DEF DecideListed
        <2> HIDE DEF action
        <2>2. CASE UNCHANGED storeVars
            BY <2>1, <2>2, Kept, StoreStepType DEF storeVars
        <2>3. CASE RefundTx(o, orders[o])
            BY <2>1, <2>3, Kept, RefundType, StoreStepType DEF RefundTx
        <2>4. CASE /\ \/ orders' = [orders EXCEPT ![o] = TriedRow(orders[o])]
                      \/ orders' = [orders EXCEPT ![o] = ReviewedRow(orders[o])]
                   /\ UNCHANGED <<balance, lastId, ledger, returned, slots, batteries>>
            <3>1. TriedRow(orders[o]) \in OrderRow
                BY Kept, RecreatedRowFacts, DecidedRowFacts DEF TriedRow
            <3>2. ReviewedRow(orders[o]) \in OrderRow
                BY Kept, DecidedRowFacts
            <3>3. orders' \in [OrderIds -> OrderRow]
                BY <2>4, <3>1, <3>2, Kept
            <3> QED BY <2>1, <2>4, <3>3, Kept, StoreStepType
        <2> QED BY <2>1, <2>2, <2>3, <2>4 DEF Decide
    <1>2. ASSUME NEW o \in OrderIds,
                 NEW action \in {"refund_deposit", "recreate_order", "manual_review"},
                 HandleAbnormalCompensation(o, action)
          PROVE  TypeOK'
        <2>1. CASE RefundTx(o, orders[o])
            BY <1>2, <2>1, Kept, RefundType, StoreStepType
               DEF HandleAbnormalCompensation, Rest, RefundTx
        <2>2. CASE /\ \/ orders' = [orders EXCEPT ![o] = RecreatedRow(orders[o])]
                      \/ orders' = [orders EXCEPT ![o] = ReviewedRow(orders[o])]
                   /\ UNCHANGED <<balance, lastId, ledger, returned, slots, batteries>>
            <3>1. /\ RecreatedRow(orders[o]) \in OrderRow
                  /\ ReviewedRow(orders[o]) \in OrderRow
                BY Kept, RecreatedRowFacts, DecidedRowFacts
            <3>2. orders' \in [OrderIds -> OrderRow]
                BY <2>2, <3>1, Kept
            <3> QED BY <1>2, <2>2, <3>2, Kept, StoreStepType
                    DEF HandleAbnormalCompensation, Rest
        <2> QED BY <1>2, <2>1, <2>2 DEF HandleAbnormalCompensation
    <1>3. ASSUME NEW o \in OrderIds, ReportUnlockFailure(o)
          PROVE  TypeOK'
        <2>1. orders' \in [OrderIds -> OrderRow]
            BY <1>3, Kept, AbnormalRowFacts DEF ReportUnlockFailure
        <2> QED BY <1>3, <2>1, Kept, StoreStepType DEF ReportUnlockFailure, Rest
    <1> QED BY <1>1, <1>2, <1>3 DEF Compensate

\* The transaction of a return, as typing sees it.
LEMMA ReturnTxType ==
    ASSUME TypeOK, NEW o \in OrderIds, NEW fee \in Nat,
           NEW status \in OrderStatus, NEW x \in Nat,
           ReturnTx(o, orders[o], fee, status, x)
    PROVE  /\ balance' \in [Users -> Nat]
           /\ orders' \in [OrderIds -> OrderRow]
           /\ ledger' \in [OrderIds -> LedgerRow]
           /\ returned' \subseteq OrderIds
           /\ batteries' \in [Batteries -> BatteryStatus]
           /\ lastId' = lastId
    <1>1. StoreTypeOK /\ orders[o] \in OrderRow
        BY Kept DEF TypeOK
    <1>2. ReturnedRow(orders[o], fee, status, x) \in OrderRow
        BY <1>1, ReturnedRowFacts
    <1>3. orders' \in [OrderIds -> OrderRow]
        BY <1>2, OrderRewritten DEF ReturnTx
    <1>4. batteries' \in [Batteries -> BatteryStatus]
        BY Kept DEF ReturnTx, BatteryStatus
    <1>5. returned' \subseteq OrderIds
        BY Kept DEF ReturnTx
    <1> QED BY <1>1, <1>3, <1>4, <1>5, CloseDepositFacts DEF ReturnTx

LEMMA FeesAreNat ==
    ASSUME NEW row, NEW fee \in FeesOf(row)
    PROVE  fee \in Nat
    BY DEF FeesOf

LEMMA ReturnType ==
    ASSUME TypeOK, Return
    PROVE  TypeOK'
    <1>1. ASSUME NEW s \in Slots, NEW b \in Batteries, NEW o \in OrderIds,
                 NEW fee \in Fees \cup {0}, NEW suspect \in BOOLEAN,
                 DetectBatteryReturn(s, b, o, fee, suspect)
          PROVE  TypeOK'
        <2> DEFINE status == IF suspect THEN "disputed" ELSE "completed"
        <2>1. status \in OrderStatus /\ fee \in Nat
            BY <1>1, FeesAreNat DEF OrderStatus, DetectBatteryReturn
        <2>2. /\ ReturnTx(o, orders[o], fee, status, 0)
              /\ UNCHANGED Rest
            BY <1>1 DEF DetectBatteryReturn
        <2>3. slots' \in [Slots -> SlotRow]
            BY <1>1, Kept DEF DetectBatteryReturn, SlotRow, SlotStatus
        <2> HIDE DEF status
        <2> QED BY <2>1, <2>2, <2>3, ReturnTxType, StoreStepType DEF Rest
    <1>2. ASSUME NEW s \in Slots, NEW o \in OrderIds, NEW fee \in Fees \cup {0},
                 ManualReturn(o, s, fee)
          PROVE  TypeOK'
        <2>1. fee \in Nat /\ orders[o].exceptionFee \in Nat
            BY <1>2, FeesAreNat, Kept DEF ManualReturn
        <2>2. /\ ReturnTx(o, orders[o], fee, "completed", orders[o].exceptionFee)
              /\ UNCHANGED Rest
            BY <1>2 DEF ManualReturn
        <2>3. slots' \in [Slots -> SlotRow]
            <3> DEFINE b == orders[o].battery
                       r1 == [slots[s] EXCEPT !.status = "occupied"]
                       r2 == [r1 EXCEPT !.battery = b]
            <3>1. b \in Batteries /\ slots[s] \in SlotRow
                BY Kept
            <3>2. slots' = [slots EXCEPT ![s] = r2]
                BY <1>2, Kept DEF ManualReturn
            <3> HIDE DEF b
            <3>3. r2 \in SlotRow
                BY <3>1 DEF SlotRow, SlotStatus
            <3> QED BY <3>2, <3>3, Kept
        <2> QED BY <2>1, <2>2, <2>3, ReturnTxType, StoreStepType
                DEF Rest, OrderStatus
    <1> QED BY <1>1, <1>2 DEF Return

LEMMA OperateType ==
    ASSUME TypeOK, Operate
    PROVE  TypeOK'
    <1>1. ASSUME NEW o \in OrderIds, NEW fee \in Fees \cup {0},
                 NEW lostFee \in LostFees, MarkLost(o, fee, lostFee)
          PROVE  TypeOK'
        <2>1. fee \in Nat /\ lostFee \in Nat /\ MaxOf(fee, lostFee) \in Nat
            BY <1>1, FeesAreNat DEF MarkLost, MaxOf
        <2>2. LostTx(o, orders[o], fee, lostFee) /\ UNCHANGED Rest
            BY <1>1 DEF MarkLost
        <2>3. LostRow(orders[o], fee, lostFee) \in OrderRow
            BY <2>1, Kept, LostRowFacts
        <2>4. orders' \in [OrderIds -> OrderRow]
            BY <2>2, <2>3, OrderRewritten DEF LostTx
        <2>5. batteries' \in [Batteries -> BatteryStatus]
            BY <2>2, Kept DEF LostTx, BatteryStatus
        <2>6. balance' \in [Users -> Nat] /\ ledger' \in [OrderIds -> LedgerRow]
            BY <2>1, <2>2, CloseDepositFacts DEF LostTx, TypeOK
        <2> QED BY <2>2, <2>4, <2>5, <2>6, Kept, StoreStepType DEF LostTx, Rest
    <1>2. ASSUME NEW o \in OrderIds, NEW damageFee \in DamageFees,
                 MarkDamage(o, damageFee)
          PROVE  TypeOK'
        <2>1. DamageTx(o, orders[o], damageFee) /\ UNCHANGED Rest
            BY <1>2 DEF MarkDamage
        <2>2. DamagedRow(orders[o], damageFee) \in OrderRow
            BY Kept, DamagedRowFacts
        <2>3. orders' \in [OrderIds -> OrderRow]
            BY <2>1, <2>2, OrderRewritten DEF DamageTx
        <2>4. batteries' \in [Batteries -> BatteryStatus]
            BY <2>1, Kept DEF DamageTx, BatteryStatus
        <2> QED BY <2>1, <2>3, <2>4, Kept, StoreStepType DEF DamageTx, Rest
    <1>3. ASSUME NEW o \in OrderIds, CreateDispute(o)
          PROVE  TypeOK'
        <2>1. DisputedRow(orders[o]) \in OrderRow
            BY Kept, DisputedRowFacts
        <2>2. orders' \in [OrderIds -> OrderRow]
            BY <1>3, <2>1, OrderRewritten DEF CreateDispute
        <2>3. /\ filed' \in Nat
              /\ disputes' \in [1..filed' -> OrderIds \cup {0}]
            BY <1>3 DEF CreateDispute, TypeOK
        <2> QED BY <1>3, <2>2, <2>3 DEF CreateDispute, TypeOK, StoreTypeOK, OrderIds
    <1>4. ASSUME NEW d \in 1..filed, RejectDispute(d)
          PROVE  TypeOK'
        <2>1. disputes' \in [1..filed -> OrderIds \cup {0}]
            BY <1>4 DEF RejectDispute, TypeOK
        <2> QED BY <1>4, <2>1
                DEF RejectDispute, TypeOK, StoreTypeOK, storeVars, OrderIds
    <1>5. ASSUME NEW d \in 1..filed, NEW refund \in Refunds,
                 NEW adjust \in Fees \cup {0}, HandleDispute(d, adjust, refund)
          PROVE  TypeOK'
        <2> DEFINE o == disputes[d]
                   n == ledger[o].refund + refund
                   m == balance[orders[o].user] + refund
        <2>1. o \in OrderIds
            BY <1>5 DEF HandleDispute, TypeOK
        <2>2. /\ AdjustedRow(orders[o], adjust, refund) \in OrderRow
              /\ orders' \in [OrderIds -> OrderRow]
            BY <1>5, <2>1, Kept, AdjustedRowFacts, OrderRewritten
               DEF HandleDispute
        <2>3. n \in Nat /\ m \in Nat
            <3>1. /\ ledger[o].refund \in Nat /\ refund \in Nat
                  /\ balance[orders[o].user] \in Nat
                BY <2>1, Kept DEF LedgerRow
            <3> QED BY <3>1
        <2>4. /\ ledger' = [ledger EXCEPT ![o].refund = n]
              /\ balance' = [balance EXCEPT ![orders[o].user] = m]
              /\ disputes' = [disputes EXCEPT ![d] = 0]
              /\ UNCHANGED <<lastId, returned, slots, batteries, credited,
                             cabinets, attempted, pending, filed>>
            BY <1>5, <2>1, Kept DEF HandleDispute
        <2> HIDE DEF o, n, m
        <2>5. [ledger[o] EXCEPT !.refund = n] \in LedgerRow
            BY <2>1, <2>3, Kept DEF LedgerRow
        <2>6. ledger' \in [OrderIds -> LedgerRow]
            BY <2>1, <2>4, <2>5, Kept
        <2>7. balance' \in [Users -> Nat]
            BY <2>1, <2>3, <2>4, Kept
        <2>8. disputes' \in [1..filed -> OrderIds \cup {0}]
            BY <2>4 DEF TypeOK
        <2> QED BY <2>2, <2>4, <2>6, <2>7, <2>8 DEF TypeOK, StoreTypeOK, OrderIds
    <1> QED BY <1>1, <1>2, <1>3, <1>4, <1>5 DEF Operate

LEMMA MaintainType ==
    ASSUME TypeOK, Maintain
    PROVE  TypeOK'
    <1> PICK c \in Cabinets, status \in CabinetStatus : SetCabinet(c, status)
        BY DEF Maintain, CreateRepair, ResolveRepair, UpdateCabinet, CabinetStatus
    <1>1. cabinets' \in [Cabinets -> CabinetStatus]
        BY DEF SetCabinet, TypeOK
    <1> QED BY <1>1 DEF SetCabinet, TypeOK, StoreTypeOK, OrderIds

LEMMA InitType == Init => TypeOK
    <1> SUFFICES ASSUME Init PROVE TypeOK
        OBVIOUS
    <1>1. slots \in [Slots -> SlotRow]
        BY DEF Init, SlotRow, SlotStatus
    <1>2. OrderIds = {} /\ 1..0 = {}
        BY DEF Init, OrderIds
    <1>3. /\ orders \in [OrderIds -> OrderRow] /\ ledger \in [OrderIds -> LedgerRow]
          /\ disputes \in [1..filed -> OrderIds \cup {0}]
        BY <1>2 DEF Init
    <1> QED BY <1>1, <1>3
            DEF Init, TypeOK, StoreTypeOK, BatteryStatus, CabinetStatus

LEMMA TypeStep == TypeOK /\ [Next]_vars => TypeOK'
    <1> SUFFICES ASSUME TypeOK, [Next]_vars PROVE TypeOK'
        OBVIOUS
    <1>1. ASSUME NEW u \in Users, NEW amount \in TopUps, TopUp(u, amount)
          PROVE  TypeOK'
        <2>1. balance' \in [Users -> Nat] /\ credited' \in [Users -> Nat]
            BY <1>1 DEF TopUp, TypeOK, StoreTypeOK
        <2> QED BY <1>1, <2>1 DEF TopUp, TypeOK, StoreTypeOK, OrderIds
    <1>2. ASSUME NEW s \in Slots, NEW b \in Batteries, AssignBattery(s, b)
          PROVE  TypeOK'
        <2>1. slots' \in [Slots -> SlotRow]
            BY <1>2, Kept DEF AssignBattery, SlotRow, SlotStatus
        <2>2. batteries' \in [Batteries -> BatteryStatus]
            BY <1>2, Kept DEF AssignBattery, BatteryStatus
        <2> QED BY <1>2, <2>1, <2>2, Kept, StoreStepType DEF AssignBattery, Rest
    <1>3. CASE UNCHANGED vars
        BY <1>3 DEF vars, TypeOK, StoreTypeOK, OrderIds
    <1> QED BY <1>1, <1>2, <1>3, ScanType, ReportType, CompensateType, ReturnType,
               OperateType, MaintainType DEF Next, Common

\* Every table keeps its type: no handler writes a status, a deposit_status or
\* a compensation_status outside its range, no wallet is overdrawn, and every
\* order, dispute and pending decision refers to rows that exist.
THEOREM TypeCorrect == Spec => []TypeOK
    BY InitType, TypeStep, PTL DEF Spec

-----------------------------------------------------------------------------
(* The inductive invariant about deposits and returns *)

\* An order row, its deposit records, and whether it has a return record.
\* The last conjunct is what the safety properties lack to be inductive: a
\* return is only ever followed by a dispute or a loss.
Settled(row, l, ret) ==
    /\ l.freeze = row.depositAmt
    /\ row.depositStatus = 0 => row.depositAmt = 0
    /\ row.depositStatus = 1 => row.depositAmt > 0
    /\ l.deduct + l.release = IF row.depositStatus = 2 THEN l.freeze ELSE 0
    /\ row.depositStatus = 1 => row.status \in {"renting", "abnormal", "disputed"}
    /\ row.status = "completed" => ret
    /\ ret => row.depositStatus = 2
    /\ ret => row.status \in {"completed", "disputed", "lost"}

\* An order waiting for a decision that can still change it was never
\* returned: only orders a decision has already closed can have rented, and
\* so have been returned, since the report listed them.
Waiting(row, ret) ==
    row.comp # 1 => row.status \in {"abnormal", "disputed", "lost"} /\ ~ret

Inv ==
    /\ \A o \in OrderIds : Settled(orders[o], ledger[o], o \in returned)
    /\ \A o \in OrderIds, r \in Reports :
          <<o, r>> \in pending => Waiting(orders[o], o \in returned)

\* What a step may do to the order p: keep it settled and, if its deposit is
\* closed, leave the deposit alone.
Keeps(p) ==
    /\ Settled(orders'[p], ledger'[p], p \in returned')
    /\ orders[p].depositStatus = 2 =>
          /\ orders'[p].depositStatus = 2
          /\ ledger'[p].deduct = ledger[p].deduct
          /\ ledger'[p].release = ledger[p].release

\* A step that is right about every order; Inv' and the action properties
\* follow from it.
GoodStep ==
    /\ \A p \in OrderIds : Keeps(p)
    /\ Inv'
    /\ returned \subseteq returned'

\* A step that does not touch orders, and lists only undecided ones.
LEMMA NoOrderChanged ==
    ASSUME TypeOK, Inv, UNCHANGED <<lastId, orders, ledger, returned>>,
           \A o \in OrderIds, r \in Reports :
              <<o, r>> \in pending' => <<o, r>> \in pending \/ Undecided(o)
    PROVE  GoodStep
    <1>1. /\ OrderIds' = OrderIds
          /\ \A p \in OrderIds : /\ orders'[p] = orders[p]
                                 /\ ledger'[p] = ledger[p]
          /\ returned' = returned
        BY DEF OrderIds
    <1>2. \A p \in OrderIds : Keeps(p)
        BY <1>1 DEF Keeps, Inv
    <1>3. ASSUME NEW o \in OrderIds, Undecided(o)
          PROVE  Waiting(orders[o], o \in returned)
        BY <1>3 DEF Undecided, Waiting, Inv, Settled
    <1>4. \A o \in OrderIds, r \in Reports :
             <<o, r>> \in pending' => Waiting(orders'[o], o \in returned')
        BY <1>1, <1>3 DEF Inv
    <1>5. Inv'
        BY <1>1, <1>2, <1>4 DEF Inv, Keeps
    <1> QED BY <1>1, <1>2, <1>5 DEF GoodStep

\* A step that adds a fresh order, renting or abnormal.
LEMMA OrderAdded ==
    ASSUME TypeOK, Inv, NEW u \in Users, NEW b \in Batteries, NEW s \in Slots,
           NEW status \in {"renting", "abnormal"}, NEW reason \in AbnormalReason,
           CanAfford(u),
           InsertOrder(NewOrder(u, b, s, status, reason), balance[u]),
           UNCHANGED <<returned, pending>>
    PROVE  GoodStep
    <1> DEFINE row == NewOrder(u, b, s, status, reason)
               l == [freeze |-> DepositFor(u), deduct |-> 0, release |-> 0,
                     refund |-> 0]
               n == lastId'
    <1>1. /\ status \in OrderStatus /\ StoreTypeOK
          /\ pending \subseteq (OrderIds \X Reports)
          /\ lastId \in Nat
          /\ returned \subseteq OrderIds
        BY DEF OrderStatus, TypeOK, StoreTypeOK
    <1>2. /\ n = lastId + 1 /\ OrderIds \subseteq OrderIds'
          /\ \A o \in OrderIds' : o \notin OrderIds => o = n
          /\ \A o \in OrderIds : orders'[o] = orders[o] /\ ledger'[o] = ledger[o]
          /\ orders'[n] = row /\ ledger'[n] = l
        BY <1>1, InsertFacts
    <1>3. n \notin OrderIds
        BY <1>1, <1>2 DEF OrderIds
    <1>4. /\ row.status = status /\ row.depositAmt = DepositFor(u)
          /\ row.depositStatus = IF DepositFor(u) > 0 THEN 1 ELSE 0
          /\ DepositFor(u) \in Nat
        BY <1>1, NewOrderRow
    <1> HIDE DEF row
    <1>5. Settled(row, l, FALSE)
        BY <1>4 DEF Settled
    <1> HIDE DEF l, n
    <1>6. \A p \in OrderIds : Keeps(p)
        BY <1>2 DEF Keeps, Inv
    <1>7. \A o \in OrderIds' : Settled(orders'[o], ledger'[o], o \in returned')
        <2>1. n \notin returned'
            BY <1>1, <1>3
        <2>2. Settled(orders'[n], ledger'[n], n \in returned')
            BY <1>2, <1>5, <2>1 DEF Settled
        <2> QED BY <1>2, <1>6, <2>2 DEF Keeps
    <1>8. ASSUME NEW o \in OrderIds', NEW r \in Reports, <<o, r>> \in pending'
          PROVE  Waiting(orders'[o], o \in returned')
        <2>1. o \in OrderIds
            BY <1>1, <1>8
        <2> QED BY <1>2, <1>8, <2>1 DEF Inv
    <1> QED BY <1>1, <1>6, <1>7, <1>8 DEF GoodStep, Inv

\* A step that rewrites one order.
LEMMA OneOrderChanged ==
    ASSUME TypeOK, Inv, NEW o \in OrderIds, NEW r \in OrderRow,
           orders' = [orders EXCEPT ![o] = r], lastId' = lastId,
           returned \subseteq returned', returned' \subseteq returned \cup {o},
           pending' \subseteq pending,
           \A p \in OrderIds : p # o => ledger'[p] = ledger[p],
           Settled(r, ledger'[o], o \in returned'),
           orders[o].depositStatus = 2 =>
              /\ r.depositStatus = 2
              /\ ledger'[o].deduct = ledger[o].deduct
              /\ ledger'[o].release = ledger[o].release,
           Waiting(orders[o], o \in returned) => Waiting(r, o \in returned')
    PROVE  GoodStep
    <1>1. /\ OrderIds' = OrderIds /\ orders'[o] = r
          /\ \A p \in OrderIds : p # o => orders'[p] = orders[p]
        BY OrderRewritten DEF OrderIds
    <1>2. \A p \in OrderIds : Keeps(p)
        <2>1. Keeps(o)
            BY <1>1 DEF Keeps
        <2>2. ASSUME NEW p \in OrderIds, p # o
              PROVE  Keeps(p)
            <3>1. /\ orders'[p] = orders[p] /\ ledger'[p] = ledger[p]
                  /\ p \in returned' <=> p \in returned
                BY <1>1, <2>2
            <3> QED BY <3>1 DEF Keeps, Inv
        <2> QED BY <2>1, <2>2
    <1>3. ASSUME NEW p \in OrderIds, NEW q \in Reports, <<p, q>> \in pending'
          PROVE  Waiting(orders'[p], p \in returned')
        <2>1. Waiting(orders[p], p \in returned)
            BY <1>3 DEF Inv
        <2>2. CASE p = o
            BY <1>1, <2>1, <2>2
        <2>3. CASE p # o
            <3>1. orders'[p] = orders[p] /\ (p \in returned' <=> p \in returned)
                BY <1>1, <2>3
            <3> QED BY <2>1, <3>1
        <2> QED BY <2>2, <2>3
    <1>4. Inv'
        BY <1>1, <1>2, <1>3 DEF Inv, Keeps
    <1> QED BY <1>2, <1>4 DEF GoodStep

\* Closing the deposit of a settled order settles it.
LEMMA ClosedIsSettled ==
    ASSUME TypeOK, Inv, NEW o \in OrderIds, NEW fee \in Nat,
           CloseDeposit(o, orders[o], fee)
    PROVE  /\ \A p \in OrderIds : p # o => ledger'[p] = ledger[p]
           /\ ledger'[o].freeze = orders[o].depositAmt
           /\ HoldsDeposit(orders[o]) <=> orders[o].depositStatus = 1
           /\ orders[o].depositStatus \in {0, 1, 2}
           /\ ledger'[o].deduct + ledger'[o].release = orders[o].depositAmt
           /\ orders[o].depositStatus = 0 => orders[o].depositAmt = 0
           /\ orders[o].depositStatus = 2 =>
                 /\ ledger'[o].deduct = ledger[o].deduct
                 /\ ledger'[o].release = ledger[o].release
    <1>1. /\ orders[o] \in OrderRow /\ ledger[o] \in LedgerRow /\ StoreTypeOK
        BY Kept DEF TypeOK
    <1>2. /\ orders[o].depositStatus \in {0, 1, 2} /\ orders[o].depositAmt \in Nat
          /\ ledger[o].deduct \in Nat /\ ledger[o].release \in Nat
        BY <1>1 DEF OrderRow, LedgerRow
    <1>3. Settled(orders[o], ledger[o], o \in returned)
        BY DEF Inv
    <1>4. HoldsDeposit(orders[o]) <=> orders[o].depositStatus = 1
        BY <1>3 DEF HoldsDeposit, Settled
    <1>5. /\ \A p \in OrderIds : p # o => ledger'[p] = ledger[p]
          /\ ledger'[o].freeze = ledger[o].freeze
          /\ HoldsDeposit(orders[o]) =>
                ledger'[o].deduct + ledger'[o].release =
                   ledger[o].deduct + ledger[o].release + orders[o].depositAmt
          /\ ~HoldsDeposit(orders[o]) => ledger'[o] = ledger[o]
        BY <1>1, CloseDepositFacts
    <1>6. ledger'[o].deduct + ledger'[o].release = orders[o].depositAmt
        BY <1>2, <1>3, <1>4, <1>5 DEF Settled
    <1> QED BY <1>2, <1>3, <1>4, <1>5, <1>6 DEF Settled

\* A return settles a renting order.
LEMMA ReturnTxGood ==
    ASSUME TypeOK, Inv, NEW o \in OrderIds, NEW fee \in Nat,
           NEW status \in OrderStatus, status \in {"completed", "disputed"},
           NEW x \in Nat, orders[o].status = "renting",
           ReturnTx(o, orders[o], fee, status, x), UNCHANGED pending
    PROVE  GoodStep
    <1> DEFINE r == ReturnedRow(orders[o], fee, status, x)
    <1>1. /\ r \in OrderRow /\ r.depositStatus = 2 /\ r.status = status
          /\ r.depositAmt = orders[o].depositAmt /\ r.comp = orders[o].comp
        BY Kept, ReturnedRowFacts
    <1>2. /\ orders' = [orders EXCEPT ![o] = r]
          /\ lastId' = lastId /\ returned' = returned \cup {o}
          /\ CloseDeposit(o, orders[o], fee)
        BY DEF ReturnTx
    <1> HIDE DEF r
    <1>3. Settled(r, ledger'[o], o \in returned')
        BY <1>1, <1>2, ClosedIsSettled DEF Settled
    <1>4. Waiting(orders[o], o \in returned) => Waiting(r, o \in returned')
        BY <1>1 DEF Waiting
    <1>5. /\ \A p \in OrderIds : p # o => ledger'[p] = ledger[p]
          /\ orders[o].depositStatus = 2 =>
                /\ ledger'[o].deduct = ledger[o].deduct
                /\ ledger'[o].release = ledger[o].release
        BY <1>2, ClosedIsSettled
    <1> QED BY <1>1, <1>2, <1>3, <1>4, <1>5, OneOrderChanged

\* Marking a renting or disputed order lost settles it.
LEMMA LostTxGood ==
    ASSUME TypeOK, Inv, NEW o \in OrderIds, NEW fee \in Nat, NEW lostFee \in Nat,
           orders[o].status \in {"renting", "disputed"},
           LostTx(o, orders[o], fee, lostFee), UNCHANGED pending
    PROVE  GoodStep
    <1> DEFINE r == LostRow(orders[o], fee, lostFee)
    <1>1. /\ r \in OrderRow /\ r.depositStatus = 2 /\ r.status = "lost"
          /\ r.depositAmt = orders[o].depositAmt /\ r.comp = orders[o].comp
        BY Kept, LostRowFacts
    <1>2. /\ orders' = [orders EXCEPT ![o] = r]
          /\ lastId' = lastId /\ returned' = returned
          /\ CloseDeposit(o, orders[o], MaxOf(fee, lostFee))
          /\ MaxOf(fee, lostFee) \in Nat
        BY DEF LostTx, MaxOf
    <1> HIDE DEF r
    <1>3. Settled(r, ledger'[o], o \in returned')
        BY <1>1, <1>2, ClosedIsSettled DEF Settled
    <1>4. Waiting(orders[o], o \in returned) => Waiting(r, o \in returned')
        BY <1>1, <1>2 DEF Waiting
    <1>5. /\ \A p \in OrderIds : p # o => ledger'[p] = ledger[p]
          /\ orders[o].depositStatus = 2 =>
                /\ ledger'[o].deduct = ledger[o].deduct
                /\ ledger'[o].release = ledger[o].release
        BY <1>2, ClosedIsSettled
    <1> QED BY <1>1, <1>2, <1>3, <1>4, <1>5, OneOrderChanged

\* A refund settles an order that was never returned.
LEMMA RefundTxGood ==
    ASSUME TypeOK, Inv, NEW o \in OrderIds, o \notin returned,
           RefundTx(o, orders[o]), pending' \subseteq pending
    PROVE  GoodStep
    <1> DEFINE r == RefundedRow(orders[o], orders[o])
    <1>1. /\ r \in OrderRow /\ r.status = "abnormal_compensated" /\ r.comp = 1
          /\ r.depositStatus = IF HoldsDeposit(orders[o]) THEN 2
                               ELSE orders[o].depositStatus
          /\ r.depositAmt = orders[o].depositAmt
        BY Kept, RefundedRowFacts
    <1>2. /\ orders' = [orders EXCEPT ![o] = r]
          /\ lastId' = lastId /\ returned' = returned
          /\ CloseDeposit(o, orders[o], 0)
        BY DEF RefundTx
    <1> HIDE DEF r
    <1>3. /\ \A p \in OrderIds : p # o => ledger'[p] = ledger[p]
          /\ ledger'[o].freeze = orders[o].depositAmt
          /\ HoldsDeposit(orders[o]) <=> orders[o].depositStatus = 1
          /\ orders[o].depositStatus \in {0, 1, 2}
          /\ ledger'[o].deduct + ledger'[o].release = orders[o].depositAmt
          /\ orders[o].depositStatus = 0 => orders[o].depositAmt = 0
          /\ orders[o].depositStatus = 2 =>
                /\ ledger'[o].deduct = ledger[o].deduct
                /\ ledger'[o].release = ledger[o].release
        BY <1>2, ClosedIsSettled
    <1>4. r.depositStatus \in {0, 2}
        BY <1>1, <1>3
    <1>5. Settled(r, ledger'[o], o \in returned')
        BY <1>1, <1>2, <1>3, <1>4 DEF Settled
    <1>6. Waiting(orders[o], o \in returned) => Waiting(r, o \in returned')
        BY <1>1 DEF Waiting
    <1>7. orders[o].depositStatus = 2 => r.depositStatus = 2
        BY <1>1, <1>3
    <1> QED BY <1>1, <1>2, <1>3, <1>5, <1>6, <1>7, OneOrderChanged

\* A step that rewrites one order and keeps its deposit.
LEMMA DepositKept ==
    ASSUME TypeOK, Inv, NEW o \in OrderIds, NEW r \in OrderRow,
           orders' = [orders EXCEPT ![o] = r], pending' \subseteq pending,
           UNCHANGED <<lastId, returned>>,
           \A p \in OrderIds : p # o => ledger'[p] = ledger[p],
           /\ ledger'[o].freeze = ledger[o].freeze
           /\ ledger'[o].deduct = ledger[o].deduct
           /\ ledger'[o].release = ledger[o].release,
           r.depositAmt = orders[o].depositAmt,
           r.depositStatus = orders[o].depositStatus,
           r.depositStatus = 1 => r.status \in {"renting", "abnormal", "disputed"},
           r.status = "completed" => o \in returned,
           o \in returned => r.status \in {"completed", "disputed", "lost"},
           Waiting(orders[o], o \in returned) => Waiting(r, o \in returned)
    PROVE  GoodStep
    <1>1. Settled(orders[o], ledger[o], o \in returned)
        BY DEF Inv
    <1>2. Settled(r, ledger'[o], o \in returned')
        BY <1>1 DEF Settled
    <1> QED BY <1>2, OneOrderChanged

-----------------------------------------------------------------------------
(* Every handler is right about every order *)

LEMMA ScanGood ==
    ASSUME TypeOK, Inv, Scan
    PROVE  GoodStep
    <1> PICK u \in Users, c \in Cabinets, req \in Slots \cup {0} :
            \/ ScanFindsCabinetSilent(u, c, req)
            \/ \E s \in Slots :
                  \/ ScanAndRent(u, c, req, s)
                  \/ \E silent \in BOOLEAN : ScanCabinetDown(u, c, req, s, silent)
                  \/ \E charged \in BOOLEAN : ScanSlotFailed(u, c, req, s, charged)
                  \/ \E charged, silent \in BOOLEAN :
                        ScanBatteryUnusable(u, c, req, s, charged, silent)
        BY DEF Scan
    <1>1. ASSUME NEW s \in Slots, NEW reason \in AbnormalReason,
                 OpenAbnormal(u, s, reason), UNCHANGED <<returned, pending>>
          PROVE  GoodStep
        BY <1>1, AbnormalIsInsert, OrderAdded
    <1>2. ASSUME UNCHANGED <<lastId, orders, ledger, returned, pending>>
          PROVE  GoodStep
        BY <1>2, NoOrderChanged
    <1>3. CASE ScanFindsCabinetSilent(u, c, req)
        BY <1>2, <1>3 DEF ScanFindsCabinetSilent
    <1>4. ASSUME NEW s \in Slots, ScanAndRent(u, c, req, s)
          PROVE  GoodStep
        <2>1. slots[s].battery \in Batteries
            BY <1>4, Kept DEF ScanAndRent, ScanOutcome, SlotRow
        <2> QED BY <1>4, <2>1, OrderAdded DEF ScanAndRent, AbnormalReason
    <1>5. ASSUME NEW s \in Slots, NEW silent \in BOOLEAN,
                 ScanCabinetDown(u, c, req, s, silent)
          PROVE  GoodStep
        BY <1>1, <1>5 DEF ScanCabinetDown, AbnormalReason
    <1>6. ASSUME NEW s \in Slots, NEW charged \in BOOLEAN,
                 ScanSlotFailed(u, c, req, s, charged)
          PROVE  GoodStep
        BY <1>1, <1>6 DEF ScanSlotFailed, AbnormalReason
    <1>7. ASSUME NEW s \in Slots, NEW charged \in BOOLEAN, NEW silent \in BOOLEAN,
                 ScanBatteryUnusable(u, c, req, s, charged, silent)
          PROVE  GoodStep
        BY <1>1, <1>2, <1>7 DEF ScanBatteryUnusable, AbnormalReason
    <1> QED BY <1>3, <1>4, <1>5, <1>6, <1>7

\* A failed unlocking turns renting orders abnormal, several at a time.
LEMMA LockFailedGood ==
    ASSUME TypeOK, Inv, NEW s \in Slots, NEW old \in SUBSET OrderIds,
           LockReportFailed(s, old)
    PROVE  GoodStep
    <1>1. /\ UNCHANGED <<lastId, ledger, returned, pending>>
          /\ OrderIds' = OrderIds
          /\ \A p \in OrderIds : orders'[p] = IF p \in old THEN AbnormalRow(orders[p])
                                              ELSE orders[p]
          /\ \A p \in old : orders[p].status = "renting"
        BY DEF LockReportFailed, Rest, OrderIds
    <1>2. ASSUME NEW p \in OrderIds
          PROVE  /\ Keeps(p)
                 /\ Waiting(orders[p], p \in returned) =>
                       Waiting(orders'[p], p \in returned')
        <2>1. CASE p \in old
            <3> DEFINE r == AbnormalRow(orders[p])
            <3>1. /\ r.status = "abnormal" /\ r.comp = 0
                  /\ r.depositStatus = orders[p].depositStatus
                  /\ r.depositAmt = orders[p].depositAmt
                BY Kept, AbnormalRowFacts
            <3>2. orders'[p] = r /\ ledger'[p] = ledger[p] /\ returned' = returned
                BY <1>1, <2>1
            <3> HIDE DEF r
            <3>3. /\ Settled(orders[p], ledger[p], p \in returned)
                  /\ orders[p].status = "renting"
                BY <1>1, <2>1 DEF Inv
            <3>4. p \notin returned
                BY <3>3 DEF Settled
            <3>5. Settled(r, ledger[p], p \in returned)
                BY <3>1, <3>3, <3>4 DEF Settled
            <3>6. Waiting(r, p \in returned)
                BY <3>1, <3>4 DEF Waiting
            <3> QED BY <3>1, <3>2, <3>5, <3>6 DEF Keeps
        <2>2. CASE p \notin old
            <3>1. /\ orders'[p] = orders[p] /\ ledger'[p] = ledger[p]
                  /\ returned' = returned
                BY <1>1, <2>2
            <3> QED BY <3>1 DEF Keeps, Inv
        <2> QED BY <2>1, <2>2
    <1> QED BY <1>1, <1>2 DEF GoodStep, Inv, Keeps

LEMMA ReportGood ==
    ASSUME TypeOK, Inv, Report
    PROVE  GoodStep
    <1>1. ASSUME NEW s \in Slots, LockReportOpened(s)
          PROVE  GoodStep
        BY <1>1, NoOrderChanged DEF LockReportOpened
    <1>2. ASSUME NEW s \in Slots, NEW occupied \in BOOLEAN,
                 NEW locked \in BOOLEAN, NEW b \in Batteries \cup {NoBattery},
                 SlotReport(s, occupied, b, locked)
          PROVE  GoodStep
        BY <1>2, NoOrderChanged DEF SlotReport, Rest
    <1>3. ASSUME NEW c \in Cabinets, HeartbeatInOrder(c)
          PROVE  GoodStep
        BY <1>3, NoOrderChanged DEF HeartbeatInOrder
    <1>4. ASSUME NEW c \in Cabinets, CabinetRecovered(c)
          PROVE  GoodStep
        BY <1>4, NoOrderChanged DEF CabinetRecovered
    <1> QED BY <1>1, <1>2, <1>3, <1>4, LockFailedGood DEF Report

\* The decision of a report: whatever it finds, it cannot touch an order that
\* was returned since it was listed.
LEMMA DecideGood ==
    ASSUME TypeOK, Inv, NEW o \in OrderIds, NEW action, Decide(o, action),
           Waiting(orders[o], o \in returned), pending' \subseteq pending
    PROVE  GoodStep
    <1>1. CASE UNCHANGED storeVars
        BY <1>1, NoOrderChanged DEF storeVars
    <1>2. CASE orders[o].comp # 1
        <2>1. orders[o].status \in {"abnormal", "disputed", "lost"} /\ o \notin returned
            BY <1>2 DEF Waiting
        <2>2. CASE RefundTx(o, orders[o])
            BY <2>1, <2>2, RefundTxGood
        <2>3. CASE /\ orders' = [orders EXCEPT ![o] = TriedRow(orders[o])]
                   /\ UNCHANGED <<balance, lastId, ledger, returned, slots, batteries>>
            <3> DEFINE r == TriedRow(orders[o])
            <3>1. /\ r \in OrderRow
                  /\ r.depositAmt = orders[o].depositAmt
                  /\ r.depositStatus = orders[o].depositStatus
                  /\ \/ r.status = "renting" /\ r.comp = 1
                     \/ r.status = orders[o].status
                BY Kept, RecreatedRowFacts, DecidedRowFacts DEF TriedRow
            <3> HIDE DEF r
            <3>2. Settled(orders[o], ledger[o], o \in returned)
                BY DEF Inv
            <3>3. /\ r.depositStatus = 1 =>
                        r.status \in {"renting", "abnormal", "disputed"}
                  /\ r.status = "completed" => o \in returned
                  /\ Waiting(r, o \in returned)
                BY <2>1, <3>1, <3>2 DEF Settled, Waiting
            <3> QED BY <2>1, <2>3, <3>1, <3>3, DepositKept DEF r
        <2>4. CASE /\ orders' = [orders EXCEPT ![o] = ReviewedRow(orders[o])]
                   /\ UNCHANGED <<balance, lastId, ledger, returned, slots, batteries>>
            <3>1. Settled(orders[o], ledger[o], o \in returned)
                BY DEF Inv
            <3>2. /\ ReviewedRow(orders[o]) \in OrderRow
                  /\ ReviewedRow(orders[o]).status = orders[o].status
                  /\ ReviewedRow(orders[o]).depositAmt = orders[o].depositAmt
                  /\ ReviewedRow(orders[o]).depositStatus = orders[o].depositStatus
                BY Kept, DecidedRowFacts
            <3> QED BY <2>1, <2>4, <3>1, <3>2, DepositKept DEF Settled, Waiting
        <2> QED BY <1>2, <2>2, <2>3, <2>4 DEF Decide
    <1> QED BY <1>1, <1>2 DEF Decide

LEMMA CompensateGood ==
    ASSUME TypeOK, Inv, Compensate
    PROVE  GoodStep
    <1>1. ASSUME NEW o \in OrderIds, NEW rep \in Reports, NEW aged \in BOOLEAN,
                 NEW expired \in BOOLEAN, DecideListed(o, rep, aged, expired)
          PROVE  GoodStep
        <2>1. Waiting(orders[o], o \in returned) /\ pending' \subseteq pending
            BY <1>1 DEF DecideListed, Inv
        <2> QED BY <1>1, <2>1, DecideGood DEF DecideListed
    <1>2. ASSUME NEW o \in OrderIds,
                 NEW action \in {"refund_deposit", "recreate_order", "manual_review"},
                 HandleAbnormalCompensation(o, action)
          PROVE  GoodStep
        <2>1. /\ orders[o].status = "abnormal" /\ o \notin returned
              /\ UNCHANGED pending
            BY <1>2 DEF HandleAbnormalCompensation, Rest, Inv, Settled
        <2>2. CASE RefundTx(o, orders[o])
            BY <2>1, <2>2, RefundTxGood
        <2>3. ASSUME NEW r \in OrderRow,
                     orders' = [orders EXCEPT ![o] = r],
                     UNCHANGED <<lastId, ledger, returned>>,
                     r.depositAmt = orders[o].depositAmt,
                     r.depositStatus = orders[o].depositStatus,
                     r.status \in {"renting", "abnormal"},
                     r.status = "renting" => r.comp = 1
              PROVE  GoodStep
            <3>1. Waiting(r, o \in returned)
                BY <2>1, <2>3 DEF Waiting
            <3> QED BY <2>1, <2>3, <3>1, DepositKept
        <2>4. /\ RecreatedRow(orders[o]) \in OrderRow
              /\ RecreatedRow(orders[o]).status = "renting"
              /\ RecreatedRow(orders[o]).comp = 1
              /\ RecreatedRow(orders[o]).depositAmt = orders[o].depositAmt
              /\ RecreatedRow(orders[o]).depositStatus = orders[o].depositStatus
            BY Kept, RecreatedRowFacts
        <2>5. /\ ReviewedRow(orders[o]) \in OrderRow
              /\ ReviewedRow(orders[o]).status = orders[o].status
              /\ ReviewedRow(orders[o]).depositAmt = orders[o].depositAmt
              /\ ReviewedRow(orders[o]).depositStatus = orders[o].depositStatus
            BY Kept, DecidedRowFacts
        <2>6. CASE /\ orders' = [orders EXCEPT ![o] = RecreatedRow(orders[o])]
                   /\ UNCHANGED <<balance, lastId, ledger, returned, slots, batteries>>
            BY <2>3, <2>4, <2>6
        <2>7. CASE /\ orders' = [orders EXCEPT ![o] = ReviewedRow(orders[o])]
                   /\ UNCHANGED <<balance, lastId, ledger, returned, slots, batteries>>
            BY <2>1, <2>3, <2>5, <2>7
        <2> QED BY <1>2, <2>2, <2>6, <2>7 DEF HandleAbnormalCompensation
    <1>3. ASSUME NEW o \in OrderIds, ReportUnlockFailure(o)
          PROVE  GoodStep
        <2> DEFINE r == AbnormalRow(orders[o])
        <2>1. /\ r \in OrderRow /\ r.status = "abnormal" /\ r.comp = 0
              /\ r.depositAmt = orders[o].depositAmt
              /\ r.depositStatus = orders[o].depositStatus
            BY Kept, AbnormalRowFacts
        <2>2. /\ orders' = [orders EXCEPT ![o] = r] /\ UNCHANGED Rest
              /\ UNCHANGED <<lastId, ledger, returned>>
            BY <1>3 DEF ReportUnlockFailure
        <2>3. o \notin returned
            BY <1>3 DEF ReportUnlockFailure, Inv, Settled
        <2> HIDE DEF r
        <2>4. Waiting(r, o \in returned)
            BY <2>1, <2>3 DEF Waiting
        <2> QED BY <2>1, <2>2, <2>3, <2>4, DepositKept DEF Rest
    <1> QED BY <1>1, <1>2, <1>3 DEF Compensate

LEMMA ReturnGood ==
    ASSUME TypeOK, Inv, Return
    PROVE  GoodStep
    <1>1. ASSUME NEW s \in Slots, NEW b \in Batteries, NEW o \in OrderIds,
                 NEW fee \in Fees \cup {0}, NEW suspect \in BOOLEAN,
                 DetectBatteryReturn(s, b, o, fee, suspect)
          PROVE  GoodStep
        <2> DEFINE status == IF suspect THEN "disputed" ELSE "completed"
        <2>1. /\ status \in OrderStatus /\ status \in {"completed", "disputed"}
              /\ fee \in Nat
            BY <1>1, FeesAreNat DEF OrderStatus, DetectBatteryReturn
        <2>2. /\ ReturnTx(o, orders[o], fee, status, 0)
              /\ orders[o].status = "renting" /\ UNCHANGED pending
            BY <1>1 DEF DetectBatteryReturn, RentedAs, Rest
        <2> HIDE DEF status
        <2> QED BY <2>1, <2>2, ReturnTxGood
    <1>2. ASSUME NEW s \in Slots, NEW o \in OrderIds, NEW fee \in Fees \cup {0},
                 ManualReturn(o, s, fee)
          PROVE  GoodStep
        <2> DEFINE status == "completed"
        <2>1. /\ fee \in Nat /\ orders[o].exceptionFee \in Nat
              /\ status \in OrderStatus /\ status \in {"completed", "disputed"}
            BY <1>2, FeesAreNat, Kept DEF ManualReturn, OrderStatus
        <2>2. /\ ReturnTx(o, orders[o], fee, status, orders[o].exceptionFee)
              /\ orders[o].status = "renting" /\ UNCHANGED pending
            BY <1>2 DEF ManualReturn, Rest
        <2> HIDE DEF status
        <2> QED BY <2>1, <2>2, ReturnTxGood
    <1> QED BY <1>1, <1>2 DEF Return

\* Settling a dispute changes what is billed and refunded, not the deposit.
LEMMA AdjustedGood ==
    ASSUME TypeOK, Inv, NEW o \in OrderIds, NEW adjust \in Nat, NEW refund \in Nat,
           orders' = [orders EXCEPT ![o] = AdjustedRow(orders[o], adjust, refund)],
           ledger' = [ledger EXCEPT ![o].refund = @ + refund],
           UNCHANGED <<lastId, returned, pending>>
    PROVE  GoodStep
    <1> DEFINE r == AdjustedRow(orders[o], adjust, refund)
               n == ledger[o].refund + refund
    <1>0. orders[o] \in OrderRow
        BY Kept
    <1>1. /\ r \in OrderRow /\ r.status = orders[o].status
          /\ r.comp = orders[o].comp
          /\ r.depositAmt = orders[o].depositAmt
          /\ r.depositStatus = orders[o].depositStatus
        <2> HIDE StoreAssumption, LifecycleAssumption
        <2> QED BY <1>0, AdjustedRowFacts
    <1>2. /\ orders' = [orders EXCEPT ![o] = r]
          /\ ledger' = [ledger EXCEPT ![o].refund = n]
        BY Kept
    <1> HIDE DEF r, n
    <1>3. /\ \A p \in OrderIds : p # o => ledger'[p] = ledger[p]
          /\ ledger'[o].freeze = ledger[o].freeze
          /\ ledger'[o].deduct = ledger[o].deduct
          /\ ledger'[o].release = ledger[o].release
        BY <1>2, Kept DEF LedgerRow
    <1>4. /\ r.depositStatus = 1 => r.status \in {"renting", "abnormal", "disputed"}
          /\ r.status = "completed" => o \in returned
          /\ o \in returned => r.status \in {"completed", "disputed", "lost"}
        BY <1>1 DEF Inv, Settled
    <1>5. Waiting(orders[o], o \in returned) => Waiting(r, o \in returned)
        BY <1>1 DEF Waiting
    <1> QED BY <1>1, <1>2, <1>3, <1>4, <1>5, DepositKept

LEMMA OperateGood ==
    ASSUME TypeOK, Inv, Operate
    PROVE  GoodStep
    <1>0. \A o \in OrderIds : Settled(orders[o], ledger[o], o \in returned)
        BY DEF Inv
    <1>1. ASSUME NEW o \in OrderIds, NEW fee \in Fees \cup {0},
                 NEW lostFee \in LostFees, MarkLost(o, fee, lostFee)
          PROVE  GoodStep
        <2>1. fee \in Nat /\ lostFee \in Nat
            BY <1>1, FeesAreNat DEF MarkLost
        <2> QED BY <1>1, <2>1, LostTxGood DEF MarkLost, Rest
    <1>2. ASSUME NEW o \in OrderIds, NEW damageFee \in DamageFees,
                 MarkDamage(o, damageFee)
          PROVE  GoodStep
        <2> DEFINE r == DamagedRow(orders[o], damageFee)
        <2>1. /\ r \in OrderRow /\ r.status = orders[o].status
              /\ r.comp = orders[o].comp
              /\ r.depositAmt = orders[o].depositAmt
              /\ r.depositStatus = orders[o].depositStatus
            BY Kept, DamagedRowFacts
        <2>2. /\ orders' = [orders EXCEPT ![o] = r] /\ UNCHANGED Rest
              /\ UNCHANGED <<lastId, ledger, returned>>
            BY <1>2 DEF MarkDamage, DamageTx
        <2> HIDE DEF r
        <2>3. Settled(r, ledger[o], o \in returned)
            BY <1>0, <2>1 DEF Settled
        <2>4. Waiting(orders[o], o \in returned) => Waiting(r, o \in returned)
            BY <2>1 DEF Waiting
        <2> QED BY <2>1, <2>2, <2>3, <2>4, DepositKept DEF Rest, Settled
    <1>3. ASSUME NEW o \in OrderIds, CreateDispute(o)
          PROVE  GoodStep
        <2> DEFINE r == DisputedRow(orders[o])
        <2>1. /\ r \in OrderRow /\ r.status = "disputed"
              /\ r.comp = orders[o].comp
              /\ r.depositAmt = orders[o].depositAmt
              /\ r.depositStatus = orders[o].depositStatus
            BY Kept, DisputedRowFacts
        <2>2. /\ orders' = [orders EXCEPT ![o] = r]
              /\ UNCHANGED <<lastId, ledger, returned, pending>>
            BY <1>3 DEF CreateDispute
        <2> HIDE DEF r
        <2>3. Waiting(orders[o], o \in returned) => Waiting(r, o \in returned)
            BY <2>1 DEF Waiting
        <2> QED BY <2>1, <2>2, <2>3, DepositKept
    <1>4. ASSUME NEW d \in 1..filed, RejectDispute(d)
          PROVE  GoodStep
        BY <1>4, NoOrderChanged DEF RejectDispute, storeVars
    <1>5. ASSUME NEW d \in 1..filed, NEW refund \in Refunds,
                 NEW adjust \in Fees \cup {0}, HandleDispute(d, adjust, refund)
          PROVE  GoodStep
        <2> DEFINE o == disputes[d]
        <2>1. o \in OrderIds
            BY <1>5 DEF HandleDispute, TypeOK
        <2>2. /\ orders' = [orders EXCEPT ![o] = AdjustedRow(orders[o], adjust, refund)]
              /\ ledger' = [ledger EXCEPT ![o].refund = @ + refund]
              /\ UNCHANGED <<lastId, returned, pending>>
            BY <1>5 DEF HandleDispute
        <2>3. adjust \in Nat
            OBVIOUS
        <2>4. refund \in Nat
            OBVIOUS
        <2> HIDE DEF o
        <2> QED BY <2>1, <2>2, <2>3, <2>4, AdjustedGood
    <1> QED BY <1>1, <1>2, <1>3, <1>4, <1>5 DEF Operate

LEMMA NextGood == TypeOK /\ Inv /\ Next => GoodStep
    <1> SUFFICES ASSUME TypeOK, Inv, Next PROVE GoodStep
        OBVIOUS
    <1>1. ASSUME NEW u \in Users, NEW amount \in TopUps, TopUp(u, amount)
          PROVE  GoodStep
        BY <1>1, NoOrderChanged DEF TopUp
    <1>2. ASSUME NEW s \in Slots, NEW b \in Batteries, AssignBattery(s, b)
          PROVE  GoodStep
        BY <1>2, NoOrderChanged DEF AssignBattery, Rest
    <1>3. ASSUME Maintain
          PROVE  GoodStep
        BY <1>3, NoOrderChanged
           DEF Maintain, CreateRepair, ResolveRepair, UpdateCabinet, SetCabinet
    <1> QED BY <1>1, <1>2, <1>3, ScanGood, ReportGood, CompensateGood,
               ReturnGood, OperateGood DEF Next, Common

LEMMA StutterGood == TypeOK /\ Inv /\ UNCHANGED vars => GoodStep
    BY NoOrderChanged DEF vars

LEMMA InitInv == Init => Inv
    <1> SUFFICES ASSUME Init PROVE Inv
        OBVIOUS
    <1>1. OrderIds = {} /\ pending = {}
        BY DEF Init, OrderIds
    <1> QED BY <1>1 DEF Inv

LEMMA InvStep == TypeOK /\ Inv /\ [Next]_vars => Inv'
    BY NextGood, StutterGood DEF GoodStep

(* The inductive invariant holds: every order row is one its status allows,   *)
(* and its deposit records agree with it, whichever handlers ran.            *)
THEOREM InvHolds == Spec => []Inv
    <1>1. Init => TypeOK /\ Inv
        BY InitType, InitInv
    <1>2. TypeOK /\ Inv /\ [Next]_vars => (TypeOK /\ Inv)'
        BY TypeStep, InvStep
    <1> QED BY <1>1, <1>2, PTL DEF Spec

-----------------------------------------------------------------------------
(* The properties *)

\* The records of a deposit always add up to what deposit_status says, for any
\* number of users, orders, slots and any fees.
THEOREM DepositsAreConserved == Spec => []DepositConservation
    <1>1. Inv => DepositConservation
        BY DEF Inv, Settled, DepositConservation
    <1> QED BY <1>1, InvHolds, PTL

\* No order ends with its deposit still frozen.
THEOREM EndedOrdersReleaseDeposit == Spec => []NoEndedOrderHoldsDeposit
    <1>1. Inv => NoEndedOrderHoldsDeposit
        BY DEF Inv, Settled, NoEndedOrderHoldsDeposit
    <1> QED BY <1>1, InvHolds, PTL

\* Completed orders have a return record, and returned ones a closed deposit.
THEOREM ReturnsAreSettled == Spec => []ReturnedOrdersAreSettled
    <1>1. Inv => ReturnedOrdersAreSettled
        BY DEF Inv, Settled, ReturnedOrdersAreSettled
    <1> QED BY <1>1, InvHolds, PTL

\* No handler deducts from or releases a deposit a second time.
THEOREM DepositsCloseOnce == Spec => DepositClosesOnce
    <1>1. TypeOK /\ Inv /\ [Next]_vars =>
             [\A o \in OrderIds :
                 orders[o].depositStatus = 2 =>
                    /\ orders'[o].depositStatus = 2
                    /\ ledger'[o].deduct = ledger[o].deduct
                    /\ ledger'[o].release = ledger[o].release]_vars
        BY NextGood DEF GoodStep, Keeps
    <1> QED BY <1>1, TypeCorrect, InvHolds, PTL DEF Spec, DepositClosesOnce

\* No report, dispute or compensation makes a returned order rent again.
THEOREM ReturnedStaysReturned == Spec => ReturnedNeverRentsAgain
    <1>1. TypeOK /\ Inv /\ [Next]_vars =>
             [\A o \in returned : orders'[o].status # "renting"]_vars
        <2> SUFFICES ASSUME TypeOK, Inv, Next, NEW o \in returned
                     PROVE  orders'[o].status # "renting"
            OBVIOUS
        <2>1. o \in OrderIds
            BY Kept
        <2>2. GoodStep
            BY NextGood
        <2>3. Settled(orders'[o], ledger'[o], o \in returned') /\ o \in returned'
            BY <2>1, <2>2 DEF GoodStep, Keeps
        <2> QED BY <2>3 DEF Settled
    <1> QED BY <1>1, TypeCorrect, InvHolds, PTL DEF Spec, ReturnedNeverRentsAgain

-----------------------------------------------------------------------------
(* Who is renting which battery, without recreated orders *)

Exclusive == BatteryExclusive /\ OneRentalPerUser

\* The orders keep their user and battery.
SameParties ==
    \A o \in OrderIds : /\ orders'[o].user = orders[o].user
                        /\ orders'[o].battery = orders[o].battery

\* A step that starts no rental, and puts no battery into a cabinet whose
\* rental goes on.
QuietStep ==
    /\ SameParties
    /\ \A o \in OrderIds' : o \in OrderIds \/ orders'[o].status # "renting"
    /\ \A b \in Batteries :
          batteries'[b] = "in_cabinet" =>
             \/ batteries[b] = "in_cabinet"
             \/ \A o \in OrderIds :
                   orders[o].battery = b => orders'[o].status # "renting"

\* A step in which u, who rents nothing, takes battery b out of a cabinet.
RentStep(u, b) ==
    /\ Active(u) = {}
    /\ batteries[b] = "in_cabinet"
    /\ batteries' = [batteries EXCEPT ![b] = "in_use"]
    /\ \A o \in OrderIds : orders'[o] = orders[o]
    /\ \A o \in OrderIds' :
          o \notin OrderIds => /\ o = lastId'
                              /\ orders'[o].user = u /\ orders'[o].battery = b

LEMMA QuietKeepsExclusive ==
    ASSUME TypeOK, Exclusive, QuietStep,
           \A o \in OrderIds : orders'[o].status = "renting" => Renting(o)
    PROVE  Exclusive'
    <1>1. ASSUME NEW o \in OrderIds', orders'[o].status = "renting"
          PROVE  /\ o \in OrderIds /\ Renting(o)
                 /\ orders[o].battery \in Batteries
                 /\ orders'[o].user = orders[o].user
                 /\ orders'[o].battery = orders[o].battery
        BY <1>1, Kept DEF QuietStep, SameParties
    <1>2. ASSUME NEW o \in OrderIds', orders'[o].status = "renting"
          PROVE  batteries'[orders'[o].battery] # "in_cabinet"
        <2>1. /\ o \in OrderIds /\ orders[o].battery \in Batteries
              /\ batteries[orders[o].battery] # "in_cabinet"
              /\ orders'[o].battery = orders[o].battery
            BY <1>1, <1>2 DEF Exclusive, BatteryExclusive
        <2> QED BY <1>2, <2>1 DEF QuietStep
    <1>3. ASSUME NEW o \in OrderIds', NEW p \in OrderIds',
                 orders'[o].status = "renting", orders'[p].status = "renting"
          PROVE  /\ orders'[p].battery = orders'[o].battery => p = o
                 /\ orders'[o].user = orders'[p].user => o = p
        BY <1>1, <1>3 DEF Exclusive, BatteryExclusive, OneRentalPerUser
    <1> QED BY <1>2, <1>3 DEF Exclusive, BatteryExclusive, OneRentalPerUser, Renting

LEMMA RentKeepsExclusive ==
    ASSUME TypeOK, Exclusive, NEW u \in Users, NEW b \in Batteries, RentStep(u, b)
    PROVE  Exclusive'
    <1>0. batteries \in [Batteries -> BatteryStatus]
        BY Kept
    <1>1. ASSUME NEW o \in OrderIds, Renting(o)
          PROVE  /\ orders[o].battery # b /\ orders[o].user # u
                 /\ batteries'[orders[o].battery] # "in_cabinet"
        <2>1. /\ batteries[orders[o].battery] # "in_cabinet"
              /\ orders[o].battery \in Batteries
            BY <1>1, Kept DEF Exclusive, BatteryExclusive
        <2>2. orders[o].battery # b
            BY <2>1 DEF RentStep
        <2>3. orders[o].user # u
            BY <1>1 DEF RentStep, Active, Renting
        <2>4. batteries'[orders[o].battery] = batteries[orders[o].battery]
            BY <1>0, <2>1, <2>2 DEF RentStep
        <2> QED BY <2>1, <2>2, <2>3, <2>4
    <1>2. batteries'[b] = "in_use"
        BY <1>0 DEF RentStep
    <1>3. ASSUME NEW o \in OrderIds', orders'[o].status = "renting"
          PROVE  \/ /\ o \in OrderIds /\ Renting(o) /\ orders'[o] = orders[o]
                 \/ /\ o \notin OrderIds /\ o = lastId'
                    /\ orders'[o].user = u /\ orders'[o].battery = b
        BY <1>3 DEF RentStep, Renting
    <1>4. ASSUME NEW o \in OrderIds', orders'[o].status = "renting"
          PROVE  batteries'[orders'[o].battery] # "in_cabinet"
        BY <1>1, <1>2, <1>3, <1>4
    <1>5. ASSUME NEW o \in OrderIds', NEW p \in OrderIds',
                 orders'[o].status = "renting", orders'[p].status = "renting"
          PROVE  /\ orders'[p].battery = orders'[o].battery => p = o
                 /\ orders'[o].user = orders'[p].user => o = p
        BY <1>1, <1>3, <1>5 DEF Exclusive, BatteryExclusive, OneRentalPerUser
    <1> QED BY <1>4, <1>5 DEF Exclusive, BatteryExclusive, OneRentalPerUser, Renting

\* A step that rewrites one order and moves no battery.
LEMMA RewriteIsQuiet ==
    ASSUME TypeOK, NEW o \in OrderIds, NEW r \in OrderRow,
           orders' = [orders EXCEPT ![o] = r],
           r.user = orders[o].user, r.battery = orders[o].battery,
           UNCHANGED <<lastId, batteries>>
    PROVE  QuietStep
    BY OrderRewritten DEF QuietStep, SameParties, OrderIds

\* A step that rewrites one order and moves its battery, which can be in a
\* cabinet again only if the order does not rent it any more.
LEMMA MoveIsQuiet ==
    ASSUME TypeOK, Exclusive, NEW o \in OrderIds, NEW r \in OrderRow,
           NEW status \in BatteryStatus,
           orders' = [orders EXCEPT ![o] = r],
           r.user = orders[o].user, r.battery = orders[o].battery,
           batteries' = [batteries EXCEPT ![orders[o].battery] = status],
           status = "in_cabinet" => Renting(o) /\ r.status # "renting",
           UNCHANGED lastId
    PROVE  QuietStep
    <1>1. /\ orders'[o] = r /\ OrderIds' = OrderIds
          /\ \A p \in OrderIds : p # o => orders'[p] = orders[p]
        BY OrderRewritten DEF OrderIds
    <1>2. ASSUME NEW b \in Batteries, batteries'[b] = "in_cabinet",
                 batteries[b] # "in_cabinet", NEW p \in OrderIds,
                 orders[p].battery = b, orders'[p].status = "renting"
          PROVE  FALSE
        <2>1. b = orders[o].battery /\ status = "in_cabinet"
            BY <1>2, Kept
        <2>2. p # o
            BY <1>1, <1>2, <2>1
        <2>3. Renting(p)
            BY <1>1, <1>2, <2>2 DEF Renting
        <2> QED BY <1>2, <2>1, <2>2, <2>3 DEF Exclusive, BatteryExclusive
    <1> QED BY <1>1, <1>2 DEF QuietStep, SameParties

\* A step that touches no order.
LEMMA UntouchedIsQuiet ==
    ASSUME UNCHANGED <<lastId, orders, batteries>>
    PROVE  QuietStep
    BY DEF QuietStep, SameParties, OrderIds

\* Whom the order belongs to that a step adds.
LEMMA InsertParties ==
    ASSUME TypeOK, NEW u \in Users, NEW b \in Batteries, NEW s \in Slots,
           NEW status \in OrderStatus, NEW reason \in AbnormalReason,
           CanAfford(u),
           InsertOrder(NewOrder(u, b, s, status, reason), balance[u])
    PROVE  /\ \A o \in OrderIds : orders'[o] = orders[o]
           /\ \A o \in OrderIds' :
                 o \notin OrderIds => /\ o = lastId'
                                     /\ orders'[o].user = u
                                     /\ orders'[o].battery = b
                                     /\ orders'[o].status = status
    <1> DEFINE row == NewOrder(u, b, s, status, reason)
    <1>1. StoreTypeOK
        BY DEF TypeOK
    <1>2. /\ \A o \in OrderIds' : o \notin OrderIds => o = lastId'
          /\ \A o \in OrderIds : orders'[o] = orders[o]
          /\ orders'[lastId'] = row
        BY <1>1, InsertFacts
    <1>3. row.user = u /\ row.battery = b /\ row.status = status
        BY NewOrderRow
    <1> HIDE DEF row
    <1> QED BY <1>2, <1>3

\* A step that opens an abnormal order.
LEMMA AbnormalIsQuiet ==
    ASSUME TypeOK, NEW u \in Users, NEW s \in Slots,
           NEW reason \in AbnormalReason, OpenAbnormal(u, s, reason),
           UNCHANGED batteries
    PROVE  QuietStep
    <1>1. /\ \A o \in OrderIds : orders'[o] = orders[o]
          /\ \A o \in OrderIds' :
                o \notin OrderIds => orders'[o].status = "abnormal"
        BY AbnormalIsInsert, InsertParties DEF OrderStatus
    <1> QED BY <1>1 DEF QuietStep, SameParties

LEMMA ScanParties ==
    ASSUME TypeOK, Scan
    PROVE  QuietStep \/ \E u \in Users, b \in Batteries : RentStep(u, b)
    <1> PICK u \in Users, c \in Cabinets, req \in Slots \cup {0} :
            \/ ScanFindsCabinetSilent(u, c, req)
            \/ \E s \in Slots :
                  \/ ScanAndRent(u, c, req, s)
                  \/ \E silent \in BOOLEAN : ScanCabinetDown(u, c, req, s, silent)
                  \/ \E charged \in BOOLEAN : ScanSlotFailed(u, c, req, s, charged)
                  \/ \E charged, silent \in BOOLEAN :
                        ScanBatteryUnusable(u, c, req, s, charged, silent)
        BY DEF Scan
    <1>1. CASE ScanFindsCabinetSilent(u, c, req)
        BY <1>1, UntouchedIsQuiet DEF ScanFindsCabinetSilent
    <1>2. ASSUME NEW s \in Slots, ScanAndRent(u, c, req, s)
          PROVE  \E b \in Batteries : RentStep(u, b)
        <2>1. slots[s].battery \in Batteries
            BY <1>2, Kept DEF ScanAndRent, ScanOutcome, SlotRow
        <2>2. /\ batteries[slots[s].battery] = "in_cabinet" /\ Active(u) = {}
              /\ batteries' = [batteries EXCEPT ![slots[s].battery] = "in_use"]
            BY <1>2 DEF ScanAndRent, ScanOutcome
        <2>3. /\ \A o \in OrderIds : orders'[o] = orders[o]
              /\ \A o \in OrderIds' :
                    o \notin OrderIds => /\ o = lastId'
                                        /\ orders'[o].user = u
                                        /\ orders'[o].battery = slots[s].battery
            BY <1>2, <2>1, InsertParties
               DEF ScanAndRent, OrderStatus, AbnormalReason
        <2> QED BY <2>1, <2>2, <2>3 DEF RentStep
    <1>3. ASSUME NEW s \in Slots, NEW silent \in BOOLEAN,
                 ScanCabinetDown(u, c, req, s, silent)
          PROVE  QuietStep
        BY <1>3, AbnormalIsQuiet DEF ScanCabinetDown, AbnormalReason
    <1>4. ASSUME NEW s \in Slots, NEW charged \in BOOLEAN,
                 ScanSlotFailed(u, c, req, s, charged)
          PROVE  QuietStep
        BY <1>4, AbnormalIsQuiet DEF ScanSlotFailed, AbnormalReason
    <1>5. ASSUME NEW s \in Slots, NEW charged \in BOOLEAN, NEW silent \in BOOLEAN,
                 ScanBatteryUnusable(u, c, req, s, charged, silent)
          PROVE  QuietStep
        BY <1>5, AbnormalIsQuiet, UntouchedIsQuiet
           DEF ScanBatteryUnusable, AbnormalReason
    <1> QED BY <1>1, <1>2, <1>3, <1>4, <1>5

LEMMA ReportParties ==
    ASSUME TypeOK, Report
    PROVE  QuietStep
    <1>1. ASSUME NEW s \in Slots, LockReportOpened(s)
          PROVE  QuietStep
        BY <1>1, UntouchedIsQuiet DEF LockReportOpened
    <1>2. ASSUME NEW s \in Slots, NEW old \in SUBSET OrderIds,
                 LockReportFailed(s, old)
          PROVE  QuietStep
        <2>1. /\ UNCHANGED <<lastId, batteries>> /\ OrderIds' = OrderIds
              /\ \A p \in OrderIds :
                    orders'[p] = IF p \in old THEN AbnormalRow(orders[p])
                                 ELSE orders[p]
            BY <1>2 DEF LockReportFailed, OrderIds
        <2>2. \A p \in OrderIds :
                 /\ AbnormalRow(orders[p]).user = orders[p].user
                 /\ AbnormalRow(orders[p]).battery = orders[p].battery
            BY Kept, AbnormalRowFacts
        <2> QED BY <2>1, <2>2 DEF QuietStep, SameParties
    <1>3. ASSUME NEW s \in Slots, NEW occupied \in BOOLEAN,
                 NEW locked \in BOOLEAN, NEW b \in Batteries \cup {NoBattery},
                 SlotReport(s, occupied, b, locked)
          PROVE  QuietStep
        BY <1>3, UntouchedIsQuiet DEF SlotReport
    <1>4. ASSUME NEW c \in Cabinets, HeartbeatInOrder(c) \/ CabinetRecovered(c)
          PROVE  QuietStep
        BY <1>4, UntouchedIsQuiet DEF HeartbeatInOrder, CabinetRecovered
    <1> QED BY <1>1, <1>2, <1>3, <1>4 DEF Report

LEMMA CompensateParties ==
    ASSUME TypeOK, Compensate
    PROVE  QuietStep
    <1>1. ASSUME NEW o \in OrderIds, UNCHANGED <<lastId, batteries>>,
                 \E r \in {RecreatedRow(orders[o]), LeftOpenRow(orders[o]),
                           ReviewedRow(orders[o]), AbnormalRow(orders[o]),
                           RefundedRow(orders[o], orders[o])} :
                    orders' = [orders EXCEPT ![o] = r]
          PROVE  QuietStep
        <2> PICK r \in {RecreatedRow(orders[o]), LeftOpenRow(orders[o]),
                        ReviewedRow(orders[o]), AbnormalRow(orders[o]),
                        RefundedRow(orders[o], orders[o])} :
                    orders' = [orders EXCEPT ![o] = r]
            BY <1>1
        <2>1. r \in OrderRow /\ r.user = orders[o].user
              /\ r.battery = orders[o].battery
            BY Kept, RecreatedRowFacts, DecidedRowFacts, AbnormalRowFacts,
               RefundedRowFacts
        <2> QED BY <1>1, <2>1, RewriteIsQuiet
    <1>2. ASSUME NEW o \in OrderIds, RefundTx(o, orders[o])
          PROVE  QuietStep
        BY <1>1, <1>2 DEF RefundTx
    <1>3. ASSUME NEW o \in OrderIds, NEW action, Decide(o, action)
          PROVE  QuietStep
        <2>1. CASE UNCHANGED storeVars
            BY <2>1, UntouchedIsQuiet DEF storeVars
        <2>2. CASE /\ orders' = [orders EXCEPT ![o] = TriedRow(orders[o])]
                   /\ UNCHANGED <<balance, lastId, ledger, returned, slots, batteries>>
            BY <1>1, <2>2 DEF TriedRow
        <2>3. CASE /\ orders' = [orders EXCEPT ![o] = ReviewedRow(orders[o])]
                   /\ UNCHANGED <<balance, lastId, ledger, returned, slots, batteries>>
            BY <1>1, <2>3
        <2> QED BY <1>2, <1>3, <2>1, <2>2, <2>3 DEF Decide
    <1>4. ASSUME NEW o \in OrderIds, NEW rep \in Reports, NEW aged \in BOOLEAN,
                 NEW expired \in BOOLEAN, DecideListed(o, rep, aged, expired)
          PROVE  QuietStep
        BY <1>3, <1>4 DEF DecideListed
    <1>5. ASSUME NEW o \in OrderIds,
                 NEW action \in {"refund_deposit", "recreate_order", "manual_review"},
                 HandleAbnormalCompensation(o, action)
          PROVE  QuietStep
        <2>1. CASE /\ \/ orders' = [orders EXCEPT ![o] = RecreatedRow(orders[o])]
                      \/ orders' = [orders EXCEPT ![o] = ReviewedRow(orders[o])]
                   /\ UNCHANGED <<lastId, batteries>>
            BY <1>1, <2>1
        <2> QED BY <1>2, <1>5, <2>1 DEF HandleAbnormalCompensation
    <1>6. ASSUME NEW o \in OrderIds, ReportUnlockFailure(o)
          PROVE  QuietStep
        BY <1>1, <1>6 DEF ReportUnlockFailure
    <1> QED BY <1>4, <1>5, <1>6 DEF Compensate

LEMMA ReturnParties ==
    ASSUME TypeOK, Exclusive, Return
    PROVE  QuietStep
    <1>1. ASSUME NEW o \in OrderIds, NEW fee \in Nat, NEW status \in OrderStatus,
                 NEW x \in Nat, status # "renting", Renting(o),
                 ReturnTx(o, orders[o], fee, status, x)
          PROVE  QuietStep
        <2> DEFINE r == ReturnedRow(orders[o], fee, status, x)
        <2>1. r \in OrderRow /\ r.user = orders[o].user
              /\ r.battery = orders[o].battery /\ r.status = status
            <3>1. orders[o] \in OrderRow
                BY Kept
            <3> HIDE StoreAssumption, LifecycleAssumption
            <3> QED BY <3>1, ReturnedRowFacts
        <2>2. /\ orders' = [orders EXCEPT ![o] = r]
              /\ batteries' = [batteries EXCEPT ![orders[o].battery] = "in_cabinet"]
              /\ UNCHANGED lastId
            BY <1>1 DEF ReturnTx
        <2>3. "in_cabinet" \in BatteryStatus
            BY DEF BatteryStatus
        <2> HIDE DEF r
        <2> QED BY <1>1, <2>1, <2>2, <2>3, MoveIsQuiet
    <1>2. ASSUME NEW s \in Slots, NEW b \in Batteries, NEW o \in OrderIds,
                 NEW fee \in Fees \cup {0}, NEW suspect \in BOOLEAN,
                 DetectBatteryReturn(s, b, o, fee, suspect)
          PROVE  QuietStep
        <2> DEFINE status == IF suspect THEN "disputed" ELSE "completed"
        <2>1. status \in OrderStatus /\ status # "renting"
              /\ fee \in Nat /\ 0 \in Nat
            BY <1>2, FeesAreNat DEF OrderStatus, DetectBatteryReturn
        <2>2. ReturnTx(o, orders[o], fee, status, 0) /\ Renting(o)
            BY <1>2 DEF DetectBatteryReturn, RentedAs, Renting
        <2> HIDE DEF status
        <2> QED BY <1>1, <2>1, <2>2
    <1>3. ASSUME NEW s \in Slots, NEW o \in OrderIds, NEW fee \in Fees \cup {0},
                 ManualReturn(o, s, fee)
          PROVE  QuietStep
        <2>1. /\ fee \in Nat /\ orders[o].exceptionFee \in Nat
              /\ "completed" \in OrderStatus
            BY <1>3, FeesAreNat, Kept DEF ManualReturn, OrderStatus
        <2> QED BY <1>1, <1>3, <2>1 DEF ManualReturn, Renting
    <1> QED BY <1>2, <1>3 DEF Return

LEMMA OperateParties ==
    ASSUME TypeOK, Exclusive, Operate
    PROVE  QuietStep
    <1>1. ASSUME NEW o \in OrderIds, NEW fee \in Fees \cup {0},
                 NEW lostFee \in LostFees, MarkLost(o, fee, lostFee)
          PROVE  QuietStep
        <2> DEFINE r == LostRow(orders[o], fee, lostFee)
                   status == "lost"
        <2>1. fee \in Nat /\ lostFee \in Nat
            BY <1>1, FeesAreNat DEF MarkLost
        <2>2. /\ r \in OrderRow /\ r.user = orders[o].user
              /\ r.battery = orders[o].battery
            <3>1. orders[o] \in OrderRow
                BY Kept
            <3> HIDE StoreAssumption, LifecycleAssumption
            <3> QED BY <2>1, <3>1, LostRowFacts
        <2>3. /\ orders' = [orders EXCEPT ![o] = r]
              /\ batteries' = [batteries EXCEPT ![orders[o].battery] = status]
              /\ UNCHANGED lastId
            BY <1>1 DEF MarkLost, LostTx
        <2>4. status \in BatteryStatus /\ status # "in_cabinet"
            BY DEF BatteryStatus
        <2> HIDE DEF r, status
        <2> QED BY <2>2, <2>3, <2>4, MoveIsQuiet
    <1>2. ASSUME NEW o \in OrderIds, NEW damageFee \in DamageFees,
                 MarkDamage(o, damageFee)
          PROVE  QuietStep
        <2> DEFINE r == DamagedRow(orders[o], damageFee)
                   status == "damaged"
        <2>1. /\ r \in OrderRow /\ r.user = orders[o].user
              /\ r.battery = orders[o].battery
            BY Kept, DamagedRowFacts
        <2>2. /\ orders' = [orders EXCEPT ![o] = r]
              /\ batteries' = [batteries EXCEPT ![orders[o].battery] = status]
              /\ UNCHANGED lastId
            BY <1>2 DEF MarkDamage, DamageTx
        <2>3. status \in BatteryStatus /\ status # "in_cabinet"
            BY DEF BatteryStatus
        <2> HIDE DEF r, status
        <2> QED BY <2>1, <2>2, <2>3, MoveIsQuiet
    <1>3. ASSUME NEW o \in OrderIds, CreateDispute(o)
          PROVE  QuietStep
        <2> DEFINE r == DisputedRow(orders[o])
        <2>1. /\ r \in OrderRow /\ r.user = orders[o].user
              /\ r.battery = orders[o].battery
            BY Kept, DisputedRowFacts
        <2>2. /\ orders' = [orders EXCEPT ![o] = r]
              /\ UNCHANGED <<lastId, batteries>>
            BY <1>3 DEF CreateDispute
        <2> HIDE DEF r
        <2> QED BY <2>1, <2>2, RewriteIsQuiet
    <1>4. ASSUME NEW d \in 1..filed, RejectDispute(d)
          PROVE  QuietStep
        BY <1>4, UntouchedIsQuiet DEF RejectDispute, storeVars
    <1>5. ASSUME NEW d \in 1..filed, NEW refund \in Refunds,
                 NEW adjust \in Fees \cup {0}, HandleDispute(d, adjust, refund)
          PROVE  QuietStep
        <2> DEFINE o == disputes[d]
                   r == AdjustedRow(orders[o], adjust, refund)
        <2>1. o \in OrderIds
            BY <1>5 DEF HandleDispute, TypeOK
        <2>2. adjust \in Nat
            OBVIOUS
        <2>3. refund \in Nat
            OBVIOUS
        <2>4. /\ r \in OrderRow /\ r.user = orders[o].user
              /\ r.battery = orders[o].battery
            <3>1. orders[o] \in OrderRow
                BY <2>1, Kept
            <3> HIDE StoreAssumption, LifecycleAssumption
            <3> QED BY <2>2, <2>3, <3>1, AdjustedRowFacts
        <2>5. /\ orders' = [orders EXCEPT ![o] = r]
              /\ UNCHANGED <<lastId, batteries>>
            BY <1>5 DEF HandleDispute
        <2> HIDE DEF o, r
        <2> QED BY <2>1, <2>4, <2>5, RewriteIsQuiet
    <1> QED BY <1>1, <1>2, <1>3, <1>4, <1>5 DEF Operate

LEMMA ExclusiveStep ==
    ASSUME TypeOK, Exclusive, [PlainNext]_vars
    PROVE  Exclusive'
    <1>1. CASE UNCHANGED vars
        BY <1>1 DEF vars, Exclusive, BatteryExclusive, OneRentalPerUser, Renting,
                    OrderIds
    <1>2. CASE PlainNext
        <2>1. \A o \in OrderIds : orders'[o].status = "renting" => Renting(o)
            BY <1>2 DEF PlainNext
        <2>2. ASSUME NEW u \in Users, NEW amount \in TopUps, TopUp(u, amount)
              PROVE  QuietStep
            BY <2>2, UntouchedIsQuiet DEF TopUp
        <2>3. ASSUME Maintain
              PROVE  QuietStep
            BY <2>3, UntouchedIsQuiet
               DEF Maintain, CreateRepair, ResolveRepair, UpdateCabinet, SetCabinet
        <2>4. ASSUME NEW s \in Slots, NEW b \in Batteries, AssignBattery(s, b),
                     \A o \in OrderIds : Renting(o) => orders[o].battery # b
              PROVE  QuietStep
            <3>1. /\ UNCHANGED <<lastId, orders>> /\ OrderIds' = OrderIds
                  /\ batteries' = [batteries EXCEPT ![b] = "in_cabinet"]
                BY <2>4 DEF AssignBattery, OrderIds
            <3>2. \A p \in Batteries : p # b => batteries'[p] = batteries[p]
                BY <3>1, Kept
            <3> QED BY <2>4, <3>1, <3>2 DEF QuietStep, SameParties, Renting
        <2>5. CASE Common
            <3>1. CASE Scan
                BY <2>1, <3>1, ScanParties, QuietKeepsExclusive, RentKeepsExclusive
            <3>2. CASE Report \/ Compensate \/ Return \/ Operate
                <4>1. QuietStep
                    BY <3>2, ReportParties, CompensateParties, ReturnParties,
                       OperateParties
                <4> QED BY <2>1, <4>1, QuietKeepsExclusive
            <3>3. CASE Maintain \/ \E u \in Users, amount \in TopUps : TopUp(u, amount)
                BY <2>1, <2>2, <2>3, <3>3, QuietKeepsExclusive
            <3> QED BY <2>5, <3>1, <3>2, <3>3 DEF Common
        <2>6. CASE \E s \in Slots, b \in Batteries :
                      /\ \A o \in OrderIds : Renting(o) => orders[o].battery # b
                      /\ AssignBattery(s, b)
            BY <2>1, <2>4, <2>6, QuietKeepsExclusive
        <2> QED BY <1>2, <2>5, <2>6 DEF PlainNext
    <1> QED BY <1>1, <1>2

LEMMA PlainInvariant == PlainSpec => [](TypeOK /\ Exclusive)
    <1>1. Init => TypeOK /\ Exclusive
        <2>1. Init => OrderIds = {}
            BY DEF Init, OrderIds
        <2> QED BY <2>1, InitType DEF Exclusive, BatteryExclusive, OneRentalPerUser
    <1>2. PlainNext => Next
        BY DEF PlainNext, Next
    <1>3. TypeOK /\ Exclusive /\ [PlainNext]_vars => (TypeOK /\ Exclusive)'
        BY <1>2, TypeStep, ExclusiveStep
    <1> QED BY <1>1, <1>3, PTL DEF PlainSpec

\* As long as no abnormal order is recreated and no operator puts a battery that
\* is being rented into a slot, no battery is ever rented twice at a time, and
\* none that is rented is offered in a cabinet: the checks a scan makes are
\* enough, however many users scan, return and report.
THEOREM BatteriesAreExclusive == PlainSpec => []BatteryExclusive
    BY PlainInvariant, PTL DEF Exclusive

\* Under the same condition no user ever has two rentals, although abnormal and
\* disputed orders do not keep a user from scanning.
THEOREM UsersRentOnce == PlainSpec => []OneRentalPerUser
    BY PlainInvariant, PTL DEF Exclusive
=============================================================================
