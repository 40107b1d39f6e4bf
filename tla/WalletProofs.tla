--------------------------- MODULE WalletProofs ----------------------------
(***************************************************************************)
(* Where the money is: theorems about the wallets and the deposits of      *)
(* OrderLifecycle, for every value of its constants.  Every handler is     *)
(* first shown to be one of five kinds of step, seen from the wallet; that *)
(* the wallets reconcile and that the deposit account is implemented       *)
(* follows from the five kinds.                                            *)
(*                                                                         *)
(* The same holds of SettlementRaces, where a request writes back what it  *)
(* has read before.  The wallets reconcile if no balance is written while  *)
(* a scan has read it (WalletApart); the deposit account is implemented if *)
(* the deposits are kept apart as well (DepositsApart).                    *)
(***************************************************************************)
EXTENDS LifecycleClaims, SettlementRacesProofs, WellFoundedInduction,
        NaturalsInduction

-----------------------------------------------------------------------------
(* Sums *)

\* Induction over the natural numbers, for a set instead of a predicate: the
\* form the provers can instantiate.
LEMMA SetInduction ==
    ASSUME NEW T \in SUBSET Nat, 0 \in T, \A n \in T : n + 1 \in T
    PROVE  T = Nat
    <1> SUFFICES ASSUME Nat \ T # {} PROVE FALSE
        OBVIOUS
    <1> DEFINE R == OpToRel(<, Nat)
    <1>1. PICK n \in Nat \ T : \A m \in Nat \ T : ~(<<m, n>> \in R)
        <2>1. IsWellFoundedOn(R, Nat)
            BY NatLessThanWellFounded
        <2> HIDE DEF R
        <2>2. Nat \ T \subseteq Nat
            OBVIOUS
        <2> QED BY <2>1, <2>2, WFMin
    <1>2. \A m \in Nat \ T : ~(m < n)
        BY <1>1 DEF OpToRel
    <1>3. n \in Nat /\ n # 0
        BY <1>1
    <1>5. n - 1 \in Nat /\ n - 1 < n /\ n = (n - 1) + 1
        BY <1>3
    <1>4. n - 1 \in T
        BY <1>2, <1>5
    <1> QED BY <1>1, <1>5, <1>4

\* s holds the sums of f over 1..0, 1..1, ..., 1..n.
IsSum(s, f, n) == s = [i \in 0..n |-> IF i = 0 THEN 0 ELSE s[i - 1] + f[i]]

LEMMA SumExists ==
    ASSUME NEW m \in Nat, NEW f \in [1..m -> Nat]
    PROVE  \E s \in [0..m -> Nat] : IsSum(s, f, m)
    <1> DEFINE T == {n \in Nat : n <= m => \E s \in [0..n -> Nat] : IsSum(s, f, n)}
    <1>1. 0 \in T
        <2> DEFINE s == [i \in 0..0 |-> 0]
        <2>1. s \in [0..0 -> Nat] /\ IsSum(s, f, 0)
            BY DEF IsSum
        <2> QED BY <2>1
    <1>2. ASSUME NEW n \in T
          PROVE  n + 1 \in T
        <2>0. n \in Nat /\ n + 1 \in Nat /\ (n + 1 <= m => n <= m)
            OBVIOUS
        <2> SUFFICES ASSUME n + 1 <= m
                     PROVE  \E s \in [0..n + 1 -> Nat] : IsSum(s, f, n + 1)
            BY <2>0
        <2>1. PICK s \in [0..n -> Nat] : IsSum(s, f, n)
            BY <2>0
        <2> DEFINE t == [i \in 0..n + 1 |-> IF i = n + 1 THEN s[n] + f[n + 1]
                                            ELSE s[i]]
        <2>2. f[n + 1] \in Nat /\ s[n] \in Nat
            OBVIOUS
        <2>3. t \in [0..n + 1 -> Nat]
            BY <2>2
        <2>4. \A i \in 0..n : s[i] = IF i = 0 THEN 0 ELSE s[i - 1] + f[i]
            BY <2>1 DEF IsSum
        <2>5. \A i \in 0..n + 1 : t[i] = IF i = 0 THEN 0 ELSE t[i - 1] + f[i]
            <3> TAKE i \in 0..n + 1
            <3>1. CASE i = n + 1
                BY <3>1
            <3>2. CASE i # n + 1 /\ i # 0
                <4>1. i \in 0..n /\ i - 1 \in 0..n /\ i - 1 # n + 1 /\ i - 1 \in 0..n+1
                    BY <3>2
                <4>2. t[i] = s[i] /\ t[i - 1] = s[i - 1]
                    BY <3>2, <4>1
                <4> QED BY <2>4, <3>2, <4>1, <4>2
            <3>3. CASE i = 0
                BY <2>4, <3>3
            <3> QED BY <3>1, <3>2, <3>3
        <2> HIDE DEF t
        <2>6. IsSum(t, f, n + 1)
            BY <2>3, <2>5 DEF IsSum
        <2> QED BY <2>3, <2>6
    <1> HIDE DEF T
    <1>3. T = Nat
        <2>1. T \subseteq Nat
            BY DEF T
        <2> QED BY <1>1, <1>2, <2>1, SetInduction
    <1>4. m \in T /\ m <= m
        BY <1>3
    <1> QED BY <1>4 DEF T

\* The sums of f, which SumTo picks its last one from.
Sums(f, n) == CHOOSE s : IsSum(s, f, n)

LEMMA SumToIsLast ==
    ASSUME NEW m \in Nat, NEW f \in [1..m -> Nat]
    PROVE  /\ IsSum(Sums(f, m), f, m)
           /\ SumTo(f, m) = Sums(f, m)[m]
    <1>1. \E s : IsSum(s, f, m)
        BY SumExists
    <1>2. IsSum(Sums(f, m), f, m)
        BY <1>1 DEF Sums
    <1>3. SumTo(f, m) = Sums(f, m)[m]
        BY DEF SumTo, Sums, IsSum
    <1> QED BY <1>2, <1>3

\* The sums of two functions that differ at most at k differ by what f and g
\* differ there.
LEMMA SumsDiffer ==
    ASSUME NEW m \in Nat, NEW n \in Nat, m <= n,
           NEW f \in [1..m -> Nat], NEW g \in [1..n -> Nat],
           NEW k \in 1..m, \A i \in 1..m : i # k => f[i] = g[i]
    PROVE  /\ Sums(f, m)[m] \in Nat /\ Sums(g, n)[m] \in Nat
           /\ Sums(f, m)[m] + g[k] = Sums(g, n)[m] + f[k]
    <1> DEFINE s == Sums(f, m)
               t == Sums(g, n)
    <1>s. IsSum(s, f, m) /\ IsSum(t, g, n)
        BY SumToIsLast
    <1> HIDE DEF s, t
    <1> DEFINE T == {i \in Nat : i <= m =>
                        /\ s[i] \in Nat /\ t[i] \in Nat
                        /\ IF i < k THEN s[i] = t[i]
                           ELSE s[i] + g[k] = t[i] + f[k]}
    <1>0. /\ \A i \in 0..m : s[i] = IF i = 0 THEN 0 ELSE s[i - 1] + f[i]
          /\ \A i \in 0..n : t[i] = IF i = 0 THEN 0 ELSE t[i - 1] + g[i]
          /\ f[k] \in Nat /\ g[k] \in Nat
        BY <1>s DEF IsSum
    <1>1. 0 \in T
        BY <1>0
    <1>2. ASSUME NEW i \in T
          PROVE  i + 1 \in T
        <2> SUFFICES ASSUME i + 1 <= m
                     PROVE  /\ s[i + 1] \in Nat /\ t[i + 1] \in Nat
                            /\ IF i + 1 < k THEN s[i + 1] = t[i + 1]
                               ELSE s[i + 1] + g[k] = t[i + 1] + f[k]
            OBVIOUS
        <2>0. i \in Nat /\ i + 1 \in 1..m /\ k \in Nat
            OBVIOUS
        <2>1. /\ s[i] \in Nat /\ t[i] \in Nat
              /\ IF i < k THEN s[i] = t[i] ELSE s[i] + g[k] = t[i] + f[k]
            OBVIOUS
        <2>2. f[i + 1] \in Nat /\ g[i + 1] \in Nat
            OBVIOUS
        <2>3. s[i + 1] = s[i] + f[i + 1] /\ t[i + 1] = t[i] + g[i + 1]
            <3>1. i + 1 \in 0..m /\ i + 1 \in 0..n /\ i + 1 # 0 /\ (i + 1) - 1 = i
                OBVIOUS
            <3> QED BY <1>0, <3>1
        <2>4. /\ f[k] \in Nat /\ g[k] \in Nat
              /\ i + 1 = k => f[i + 1] = f[k] /\ g[i + 1] = g[k]
              /\ i + 1 # k => f[i + 1] = g[i + 1]
            BY <1>0, <2>0
        <2> DEFINE a == s[i]
                   b == t[i]
                   x == f[i + 1]
                   y == g[i + 1]
                   c == f[k]
                   d == g[k]
        <2>5. /\ a \in Nat /\ b \in Nat /\ x \in Nat /\ y \in Nat
              /\ c \in Nat /\ d \in Nat
              /\ IF i < k THEN a = b ELSE a + d = b + c
              /\ i + 1 = k => x = c /\ y = d
              /\ i + 1 # k => x = y
            BY <2>1, <2>2, <2>4
        <2> HIDE DEF T, a, b, c, d, x, y
        <2>6. /\ a + x \in Nat /\ b + y \in Nat
              /\ IF i + 1 < k THEN a + x = b + y ELSE (a + x) + d = (b + y) + c
            BY <2>0, <2>5
        <2>7. s[i + 1] = a + x /\ t[i + 1] = b + y
            BY <2>3 DEF a, b, x, y
        <2> QED BY <2>6, <2>7 DEF c, d
    <1> HIDE DEF T
    <1>3. T = Nat
        <2>1. T \subseteq Nat
            BY DEF T
        <2> QED BY <1>1, <1>2, <2>1, SetInduction
    <1>4. m \in T
        BY <1>3
    <1> QED BY <1>4 DEF T, s, t

\* What SumTo is when one summand changes...
LEMMA SumWithOneChanged ==
    ASSUME NEW m \in Nat, NEW f \in [1..m -> Nat], NEW g \in [1..m -> Nat],
           NEW k \in 1..m, \A i \in 1..m : i # k => f[i] = g[i]
    PROVE  /\ SumTo(f, m) \in Nat /\ SumTo(g, m) \in Nat
           /\ SumTo(f, m) + g[k] = SumTo(g, m) + f[k]
    <1>1. m <= m
        OBVIOUS
    <1>2. /\ Sums(f, m)[m] \in Nat /\ Sums(g, m)[m] \in Nat
          /\ Sums(f, m)[m] + g[k] = Sums(g, m)[m] + f[k]
        BY <1>1, SumsDiffer
    <1>3. SumTo(f, m) = Sums(f, m)[m] /\ SumTo(g, m) = Sums(g, m)[m]
        BY SumToIsLast
    <1> QED BY <1>2, <1>3

\* ... and when one is added.
LEMMA SumWithOneMore ==
    ASSUME NEW m \in Nat, NEW f \in [1..m -> Nat], NEW g \in [1..m + 1 -> Nat],
           \A i \in 1..m : f[i] = g[i]
    PROVE  /\ SumTo(f, m) \in Nat
           /\ SumTo(g, m + 1) = SumTo(f, m) + g[m + 1]
    <1> DEFINE s == Sums(f, m)
               t == Sums(g, m + 1)
    <1>1. IsSum(s, f, m) /\ SumTo(f, m) = s[m]
        BY SumToIsLast
    <1>2. IsSum(t, g, m + 1) /\ SumTo(g, m + 1) = t[m + 1]
        <2>1. m + 1 \in Nat
            OBVIOUS
        <2> QED BY <2>1, SumToIsLast
    <1>3. s[m] \in Nat /\ t[m] = s[m]
        <2>1. CASE m = 0
            BY <1>1, <1>2, <2>1 DEF IsSum
        <2>2. CASE m # 0
            <3>1. m \in 1..m /\ f[m] = g[m] /\ f[m] \in Nat
                BY <2>2
            <3>2. m + 1 \in Nat /\ m <= m + 1
                OBVIOUS
            <3>3. s[m] \in Nat /\ t[m] \in Nat /\ s[m] + g[m] = t[m] + f[m]
                BY <3>1, <3>2, SumsDiffer
            <3> QED BY <3>1, <3>3
        <2> QED BY <2>1, <2>2
    <1> HIDE DEF s, t
    <1>4. t[m + 1] = t[m] + g[m + 1]
        <2>1. m + 1 \in 0..m + 1 /\ m + 1 # 0 /\ (m + 1) - 1 = m
            OBVIOUS
        <2> QED BY <1>2, <2>1 DEF IsSum
    <1> QED BY <1>1, <1>2, <1>3, <1>4

LEMMA SumType ==
    ASSUME NEW m \in Nat, NEW f \in [1..m -> Nat]
    PROVE  SumTo(f, m) \in Nat
    <1> DEFINE g == [i \in 1..m + 1 |-> IF i \in 1..m THEN f[i] ELSE 0]
    <1>1. g \in [1..m + 1 -> Nat] /\ \A i \in 1..m : f[i] = g[i]
        OBVIOUS
    <1> HIDE DEF g
    <1> QED BY <1>1, SumWithOneMore

-----------------------------------------------------------------------------
(* The five kinds of step *)

USE StoreAssumption, LifecycleAssumption

\* What the wallets see of order o stays as it is.
SameDeposit(o) ==
    /\ orders'[o].user = orders[o].user
    /\ orders'[o].depositAmt = orders[o].depositAmt
    /\ orders'[o].depositStatus = 1 <=> orders[o].depositStatus = 1

\* Neither a wallet nor a deposit record is written.
Idle ==
    /\ UNCHANGED <<balance, credited, lastId, ledger>>
    /\ \A o \in OrderIds : SameDeposit(o)

\* A payment is credited.
Paid(u, amount) ==
    /\ balance' = [balance EXCEPT ![u] = @ + amount]
    /\ credited' = [credited EXCEPT ![u] = @ + amount]
    /\ UNCHANGED <<lastId, orders, ledger>>

\* A dispute about order o is settled with a refund.
Refunded(o, refund) ==
    /\ balance' = [balance EXCEPT ![orders[o].user] = @ + refund]
    /\ ledger' = [ledger EXCEPT ![o].refund = @ + refund]
    /\ UNCHANGED <<credited, lastId>>
    /\ \A p \in OrderIds : SameDeposit(p)

\* A fresh order of u freezes the deposit u has to pay.
Opened(u) ==
    /\ CanAfford(u)
    /\ lastId' = lastId + 1
    /\ \A o \in OrderIds : orders'[o] = orders[o] /\ ledger'[o] = ledger[o]
    /\ orders'[lastId'].user = u
    /\ orders'[lastId'].depositAmt = DepositFor(u)
    /\ orders'[lastId'].depositStatus = IF DepositFor(u) > 0 THEN 1 ELSE 0
    /\ ledger'[lastId'] = [freeze |-> DepositFor(u), deduct |-> 0,
                           release |-> 0, refund |-> 0]
    /\ balance' = [balance EXCEPT ![u] = @ - DepositFor(u)]
    /\ UNCHANGED credited

\* The frozen deposit of order o is closed: part of it is deducted, the rest
\* released.
Closed(o, part) ==
    /\ orders[o].depositStatus = 1
    /\ UNCHANGED <<credited, lastId>>
    /\ \A p \in OrderIds : p # o => SameDeposit(p) /\ ledger'[p] = ledger[p]
    /\ orders'[o].user = orders[o].user
    /\ orders'[o].depositAmt = orders[o].depositAmt
    /\ orders'[o].depositStatus # 1
    /\ LET rest == orders[o].depositAmt - part
       IN  /\ ledger'[o].freeze = ledger[o].freeze
           /\ ledger'[o].deduct = ledger[o].deduct + part
           /\ ledger'[o].release = ledger[o].release + rest
           /\ ledger'[o].refund = ledger[o].refund
           /\ balance' = [balance EXCEPT ![orders[o].user] = @ + rest]

MoneyStep ==
    \/ Idle
    \/ \E u \in Users, amount \in Nat : Paid(u, amount)
    \/ \E o \in OrderIds, refund \in Nat : Refunded(o, refund)
    \/ \E u \in Users : Opened(u)
    \/ \E o \in OrderIds : \E part \in 0..orders[o].depositAmt : Closed(o, part)

\* A step that rewrites one order, but not its deposit.
LEMMA RewriteIsIdle ==
    ASSUME TypeOK, NEW o \in OrderIds, NEW r \in OrderRow,
           orders' = [orders EXCEPT ![o] = r],
           r.user = orders[o].user, r.depositAmt = orders[o].depositAmt,
           r.depositStatus = 1 <=> orders[o].depositStatus = 1,
           UNCHANGED <<balance, credited, lastId, ledger>>
    PROVE  MoneyStep
    <1>1. /\ orders'[o] = r
          /\ \A p \in OrderIds : p # o => orders'[p] = orders[p]
        BY OrderRewritten
    <1>2. \A p \in OrderIds : SameDeposit(p)
        BY <1>1 DEF SameDeposit
    <1> QED BY <1>2 DEF Idle, MoneyStep

\* A step that does not touch the orders at all.
LEMMA UntouchedIsIdle ==
    ASSUME UNCHANGED <<balance, credited, lastId, orders, ledger>>
    PROVE  MoneyStep
    BY DEF MoneyStep, Idle, SameDeposit

\* A step that adds an order.
LEMMA InsertOpens ==
    ASSUME TypeOK, NEW u \in Users, NEW b \in Batteries, NEW s \in Slots,
           NEW status \in OrderStatus, NEW reason \in AbnormalReason,
           CanAfford(u),
           InsertOrder(NewOrder(u, b, s, status, reason), balance[u]),
           UNCHANGED credited
    PROVE  MoneyStep
    <1> DEFINE row == NewOrder(u, b, s, status, reason)
    <1>1. /\ lastId' = lastId + 1
          /\ \A o \in OrderIds : orders'[o] = orders[o] /\ ledger'[o] = ledger[o]
          /\ orders'[lastId'] = row
          /\ ledger'[lastId'] = [freeze |-> DepositFor(u), deduct |-> 0,
                                 release |-> 0, refund |-> 0]
        <2>1. StoreTypeOK
            BY DEF TypeOK
        <2> QED BY <2>1, InsertFacts
    <1>2. /\ row.user = u /\ row.depositAmt = DepositFor(u)
          /\ row.depositStatus = IF DepositFor(u) > 0 THEN 1 ELSE 0
          /\ DepositFor(u) \in Nat
        BY NewOrderRow
    <1>3. balance \in [Users -> Nat] /\ balance[u] >= DepositFor(u)
        BY Kept DEF CanAfford
    <1>4. balance' = IF DepositFor(u) > 0
                     THEN [balance EXCEPT ![u] = balance[u] - DepositFor(u)]
                     ELSE balance
        BY <1>2 DEF InsertOrder
    <1> HIDE DEF row
    <1>5. balance' = [balance EXCEPT ![u] = @ - DepositFor(u)]
        <2>1. CASE DepositFor(u) > 0
            BY <1>3, <1>4, <2>1
        <2>2. CASE ~(DepositFor(u) > 0)
            <3>1. DepositFor(u) = 0 /\ balance[u] - DepositFor(u) = balance[u]
                BY <1>2, <1>3, <2>2
            <3> QED BY <1>3, <1>4, <2>2, <3>1
        <2> QED BY <2>1, <2>2
    <1>6. Opened(u)
        BY <1>1, <1>2, <1>5 DEF Opened
    <1> QED BY <1>6 DEF MoneyStep

\* A step that closes a deposit and rewrites the order accordingly.
LEMMA CloseCloses ==
    ASSUME TypeOK, Inv, NEW o \in OrderIds, NEW fee \in Nat, NEW r \in OrderRow,
           CloseDeposit(o, orders[o], fee), orders' = [orders EXCEPT ![o] = r],
           r.user = orders[o].user, r.depositAmt = orders[o].depositAmt,
           r.depositStatus # 1,
           UNCHANGED <<credited, lastId>>
    PROVE  MoneyStep
    <1>0. /\ orders[o] \in OrderRow /\ ledger[o] \in LedgerRow
          /\ ledger \in [OrderIds -> LedgerRow]
        BY Kept
    <1>1. /\ orders'[o] = r
          /\ \A p \in OrderIds : p # o => orders'[p] = orders[p]
        BY OrderRewritten
    <1>2. /\ HoldsDeposit(orders[o]) <=> orders[o].depositStatus = 1
          /\ \A p \in OrderIds : p # o => ledger'[p] = ledger[p]
        BY ClosedIsSettled
    <1>3. CASE orders[o].depositStatus # 1
        <2>1. UNCHANGED <<balance, ledger>>
            BY <1>2, <1>3 DEF CloseDeposit
        <2> QED BY <1>3, <2>1, RewriteIsIdle
    <1>4. CASE orders[o].depositStatus = 1
        <2> DEFINE part == Deducted(orders[o], fee)
                   rest == orders[o].depositAmt - part
                   d == ledger[o].deduct + part
                   e == ledger[o].release + rest
        <2>1. part \in 0..orders[o].depositAmt /\ orders[o].depositAmt \in Nat
            BY <1>0 DEF Deducted, OrderRow
        <2>2. Released(orders[o], fee) = rest
            BY <1>2, <1>4 DEF Released
        <2>3. /\ balance' = [balance EXCEPT ![orders[o].user] = @ + rest]
              /\ ledger' = [ledger EXCEPT ![o].deduct = @ + part,
                                          ![o].release = @ + rest]
            BY <1>2, <1>4, <2>2 DEF CloseDeposit
        <2> HIDE DEF part
        <2>4. ledger'[o] = [ledger[o] EXCEPT !.deduct = d, !.release = e]
            BY <1>0, <2>3
        <2> HIDE DEF d, e
        <2>5. /\ ledger'[o].freeze = ledger[o].freeze /\ ledger'[o].deduct = d
              /\ ledger'[o].release = e /\ ledger'[o].refund = ledger[o].refund
            BY <1>0, <2>4 DEF LedgerRow
        <2>6. \A p \in OrderIds : p # o => SameDeposit(p)
            BY <1>1 DEF SameDeposit
        <2>7. Closed(o, part)
            BY <1>1, <1>2, <1>4, <2>3, <2>5, <2>6 DEF Closed, d, e
        <2> QED BY <2>1, <2>7 DEF MoneyStep
    <1> QED BY <1>3, <1>4

-----------------------------------------------------------------------------
(* Every handler is one of them *)

LEMMA ScanMoney ==
    ASSUME TypeOK, Scan
    PROVE  MoneyStep
    <1> PICK u \in Users, c \in Cabinets, req \in Slots \cup {0} :
            \/ ScanFindsCabinetSilent(u, c, req)
            \/ \E s \in Slots :
                  \/ ScanAndRent(u, c, req, s)
                  \/ \E silent \in BOOLEAN : ScanCabinetDown(u, c, req, s, silent)
                  \/ \E charged \in BOOLEAN : ScanSlotFailed(u, c, req, s, charged)
                  \/ \E charged, silent \in BOOLEAN :
                        ScanBatteryUnusable(u, c, req, s, charged, silent)
        BY DEF Scan
    <1>1. ASSUME NEW s \in Slots, NEW reason \in AbnormalReason,
                 OpenAbnormal(u, s, reason), UNCHANGED credited
          PROVE  MoneyStep
        BY <1>1, AbnormalIsInsert, InsertOpens DEF OrderStatus
    <1>2. CASE ScanFindsCabinetSilent(u, c, req)
        BY <1>2, UntouchedIsIdle DEF ScanFindsCabinetSilent
    <1>3. ASSUME NEW s \in Slots, ScanAndRent(u, c, req, s)
          PROVE  MoneyStep
        <2>1. slots[s].battery \in Batteries
            BY <1>3, Kept DEF ScanAndRent, ScanOutcome, SlotRow
        <2> QED BY <1>3, <2>1, InsertOpens
                DEF ScanAndRent, OrderStatus, AbnormalReason
    <1>4. ASSUME NEW s \in Slots, NEW silent \in BOOLEAN,
                 ScanCabinetDown(u, c, req, s, silent)
          PROVE  MoneyStep
        BY <1>1, <1>4 DEF ScanCabinetDown, AbnormalReason
    <1>5. ASSUME NEW s \in Slots, NEW charged \in BOOLEAN,
                 ScanSlotFailed(u, c, req, s, charged)
          PROVE  MoneyStep
        BY <1>1, <1>5 DEF ScanSlotFailed, AbnormalReason
    <1>6. ASSUME NEW s \in Slots, NEW charged \in BOOLEAN, NEW silent \in BOOLEAN,
                 ScanBatteryUnusable(u, c, req, s, charged, silent)
          PROVE  MoneyStep
        BY <1>1, <1>6, UntouchedIsIdle DEF ScanBatteryUnusable, AbnormalReason
    <1> QED BY <1>2, <1>3, <1>4, <1>5, <1>6

LEMMA ReportMoney ==
    ASSUME TypeOK, Report
    PROVE  MoneyStep
    <1>1. ASSUME NEW s \in Slots, LockReportOpened(s)
          PROVE  MoneyStep
        BY <1>1, UntouchedIsIdle DEF LockReportOpened
    <1>2. ASSUME NEW s \in Slots, NEW old \in SUBSET OrderIds,
                 LockReportFailed(s, old)
          PROVE  MoneyStep
        <2>1. ASSUME NEW p \in OrderIds
              PROVE  SameDeposit(p)
            <3>1. orders'[p] = IF p \in old THEN AbnormalRow(orders[p])
                               ELSE orders[p]
                BY <1>2 DEF LockReportFailed
            <3>2. /\ AbnormalRow(orders[p]).user = orders[p].user
                  /\ AbnormalRow(orders[p]).depositAmt = orders[p].depositAmt
                  /\ AbnormalRow(orders[p]).depositStatus =
                        orders[p].depositStatus
                BY Kept, AbnormalRowFacts
            <3> QED BY <3>1, <3>2 DEF SameDeposit
        <2> QED BY <1>2, <2>1 DEF LockReportFailed, Rest, Idle, MoneyStep
    <1>3. ASSUME NEW s \in Slots, NEW occupied \in BOOLEAN,
                 NEW locked \in BOOLEAN, NEW b \in Batteries \cup {NoBattery},
                 SlotReport(s, occupied, b, locked)
          PROVE  MoneyStep
        BY <1>3, UntouchedIsIdle DEF SlotReport, Rest
    <1>4. ASSUME NEW c \in Cabinets, HeartbeatInOrder(c) \/ CabinetRecovered(c)
          PROVE  MoneyStep
        BY <1>4, UntouchedIsIdle DEF HeartbeatInOrder, CabinetRecovered
    <1> QED BY <1>1, <1>2, <1>3, <1>4 DEF Report

LEMMA RefundMoney ==
    ASSUME TypeOK, Inv, NEW o \in OrderIds, RefundTx(o, orders[o]),
           UNCHANGED credited
    PROVE  MoneyStep
    <1> DEFINE r == RefundedRow(orders[o], orders[o])
    <1>1. /\ r \in OrderRow /\ r.user = orders[o].user
          /\ r.depositAmt = orders[o].depositAmt
          /\ r.depositStatus = IF HoldsDeposit(orders[o]) THEN 2
                               ELSE orders[o].depositStatus
        BY Kept, RefundedRowFacts
    <1>2. /\ orders' = [orders EXCEPT ![o] = r]
          /\ CloseDeposit(o, orders[o], 0) /\ lastId' = lastId
        BY DEF RefundTx
    <1> HIDE DEF r
    <1>3. 0 \in Nat
        OBVIOUS
    <1>4. HoldsDeposit(orders[o]) <=> orders[o].depositStatus = 1
        BY <1>2, <1>3, ClosedIsSettled
    <1>5. r.depositStatus # 1
        BY <1>1, <1>4
    <1> QED BY <1>1, <1>2, <1>3, <1>5, CloseCloses

\* A compensation refunds the deposit or rewrites the order.
LEMMA CompensateMoney ==
    ASSUME TypeOK, Inv, Compensate
    PROVE  MoneyStep
    <1>1. ASSUME NEW o \in OrderIds, UNCHANGED <<balance, credited, lastId, ledger>>,
                 \E r \in {RecreatedRow(orders[o]), LeftOpenRow(orders[o]),
                           ReviewedRow(orders[o]), AbnormalRow(orders[o])} :
                    orders' = [orders EXCEPT ![o] = r]
          PROVE  MoneyStep
        <2> PICK r \in {RecreatedRow(orders[o]), LeftOpenRow(orders[o]),
                        ReviewedRow(orders[o]), AbnormalRow(orders[o])} :
                    orders' = [orders EXCEPT ![o] = r]
            BY <1>1
        <2>1. /\ r \in OrderRow /\ r.user = orders[o].user
              /\ r.depositAmt = orders[o].depositAmt
              /\ r.depositStatus = orders[o].depositStatus
            BY Kept, RecreatedRowFacts, DecidedRowFacts, AbnormalRowFacts
        <2> QED BY <1>1, <2>1, RewriteIsIdle
    <1>2. ASSUME NEW o \in OrderIds, NEW action, Decide(o, action),
                 UNCHANGED credited
          PROVE  MoneyStep
        <2>1. CASE UNCHANGED storeVars
            BY <1>2, <2>1, UntouchedIsIdle DEF storeVars
        <2>2. CASE RefundTx(o, orders[o])
            BY <1>2, <2>2, RefundMoney
        <2>3. CASE /\ orders' = [orders EXCEPT ![o] = TriedRow(orders[o])]
                   /\ UNCHANGED <<balance, lastId, ledger, returned, slots, batteries>>
            BY <1>1, <1>2, <2>3 DEF TriedRow
        <2>4. CASE /\ orders' = [orders EXCEPT ![o] = ReviewedRow(orders[o])]
                   /\ UNCHANGED <<balance, lastId, ledger, returned, slots, batteries>>
            BY <1>1, <1>2, <2>4
        <2> QED BY <1>2, <2>1, <2>2, <2>3, <2>4 DEF Decide
    <1>3. ASSUME NEW o \in OrderIds, NEW rep \in Reports, NEW aged \in BOOLEAN,
                 NEW expired \in BOOLEAN, DecideListed(o, rep, aged, expired)
          PROVE  MoneyStep
        BY <1>2, <1>3 DEF DecideListed
    <1>4. ASSUME NEW o \in OrderIds,
                 NEW action \in {"refund_deposit", "recreate_order", "manual_review"},
                 HandleAbnormalCompensation(o, action)
          PROVE  MoneyStep
        <2>1. UNCHANGED credited
            BY <1>4 DEF HandleAbnormalCompensation, Rest
        <2>2. CASE RefundTx(o, orders[o])
            BY <2>1, <2>2, RefundMoney
        <2>3. CASE /\ \/ orders' = [orders EXCEPT ![o] = RecreatedRow(orders[o])]
                      \/ orders' = [orders EXCEPT ![o] = ReviewedRow(orders[o])]
                   /\ UNCHANGED <<balance, lastId, ledger>>
            BY <1>1, <2>1, <2>3
        <2> QED BY <1>4, <2>2, <2>3 DEF HandleAbnormalCompensation
    <1>5. ASSUME NEW o \in OrderIds, ReportUnlockFailure(o)
          PROVE  MoneyStep
        BY <1>1, <1>5 DEF ReportUnlockFailure, Rest
    <1> QED BY <1>3, <1>4, <1>5 DEF Compensate

LEMMA ReturnTxMoney ==
    ASSUME TypeOK, Inv, NEW o \in OrderIds, NEW fee \in Nat,
           NEW status \in OrderStatus, NEW x \in Nat,
           ReturnTx(o, orders[o], fee, status, x), UNCHANGED credited
    PROVE  MoneyStep
    <1> DEFINE r == ReturnedRow(orders[o], fee, status, x)
    <1>1. /\ r \in OrderRow /\ r.depositStatus = 2 /\ r.user = orders[o].user
          /\ r.depositAmt = orders[o].depositAmt
        <2>1. orders[o] \in OrderRow
            BY Kept
        <2> HIDE StoreAssumption, LifecycleAssumption
        <2> QED BY <2>1, ReturnedRowFacts
    <1>2. /\ orders' = [orders EXCEPT ![o] = r]
          /\ CloseDeposit(o, orders[o], fee) /\ lastId' = lastId
        BY DEF ReturnTx
    <1> HIDE DEF r
    <1>3. r.depositStatus # 1
        BY <1>1
    <1> QED BY <1>1, <1>2, <1>3, CloseCloses

LEMMA ReturnMoney ==
    ASSUME TypeOK, Inv, Return
    PROVE  MoneyStep
    <1>1. ASSUME NEW s \in Slots, NEW b \in Batteries, NEW o \in OrderIds,
                 NEW fee \in Fees \cup {0}, NEW suspect \in BOOLEAN,
                 DetectBatteryReturn(s, b, o, fee, suspect)
          PROVE  MoneyStep
        <2> DEFINE status == IF suspect THEN "disputed" ELSE "completed"
        <2>1. status \in OrderStatus /\ fee \in Nat /\ 0 \in Nat
            BY <1>1, FeesAreNat DEF OrderStatus, DetectBatteryReturn
        <2>2. ReturnTx(o, orders[o], fee, status, 0) /\ UNCHANGED credited
            BY <1>1 DEF DetectBatteryReturn, Rest
        <2> HIDE DEF status
        <2> QED BY <2>1, <2>2, ReturnTxMoney
    <1>2. ASSUME NEW s \in Slots, NEW o \in OrderIds, NEW fee \in Fees \cup {0},
                 ManualReturn(o, s, fee)
          PROVE  MoneyStep
        <2>1. /\ fee \in Nat /\ orders[o].exceptionFee \in Nat
              /\ "completed" \in OrderStatus
            BY <1>2, FeesAreNat, Kept DEF ManualReturn, OrderStatus
        <2> QED BY <1>2, <2>1, ReturnTxMoney DEF ManualReturn, Rest
    <1> QED BY <1>1, <1>2 DEF Return

LEMMA DisputeMoney ==
    ASSUME TypeOK
    PROVE  /\ \A o \in OrderIds : CreateDispute(o) => MoneyStep
           /\ \A d \in 1..filed, refund \in Refunds, adjust \in Fees \cup {0} :
                 HandleDispute(d, adjust, refund) => MoneyStep
    <1>1. ASSUME NEW o \in OrderIds, CreateDispute(o)
          PROVE  MoneyStep
        <2> DEFINE r == DisputedRow(orders[o])
        <2>1. /\ r \in OrderRow /\ r.user = orders[o].user
              /\ r.depositAmt = orders[o].depositAmt
              /\ r.depositStatus = orders[o].depositStatus
            BY Kept, DisputedRowFacts
        <2>2. /\ orders' = [orders EXCEPT ![o] = r]
              /\ UNCHANGED <<balance, credited, lastId, ledger>>
            BY <1>1 DEF CreateDispute
        <2> HIDE DEF r
        <2> QED BY <2>1, <2>2, RewriteIsIdle
    <1>2. ASSUME NEW d \in 1..filed, NEW refund \in Refunds,
                 NEW adjust \in Fees \cup {0}, HandleDispute(d, adjust, refund)
          PROVE  MoneyStep
        <2> DEFINE o == disputes[d]
                   r == AdjustedRow(orders[o], adjust, refund)
        <2>1. o \in OrderIds
            BY <1>2 DEF HandleDispute, TypeOK
        <2>2. adjust \in Nat
            OBVIOUS
        <2>3. refund \in Nat
            OBVIOUS
        <2>4. /\ r \in OrderRow /\ r.user = orders[o].user
              /\ r.depositAmt = orders[o].depositAmt
              /\ r.depositStatus = orders[o].depositStatus
            <3>1. orders[o] \in OrderRow
                BY <2>1, Kept
            <3> HIDE StoreAssumption, LifecycleAssumption
            <3> QED BY <2>2, <2>3, <3>1, AdjustedRowFacts
        <2>5. /\ orders' = [orders EXCEPT ![o] = r]
              /\ ledger' = [ledger EXCEPT ![o].refund = @ + refund]
              /\ balance' = [balance EXCEPT ![orders[o].user] = @ + refund]
              /\ UNCHANGED <<credited, lastId>>
            BY <1>2 DEF HandleDispute
        <2> HIDE DEF o, r
        <2>6. \A p \in OrderIds : SameDeposit(p)
            BY <2>1, <2>4, <2>5, OrderRewritten DEF SameDeposit
        <2>7. Refunded(o, refund)
            BY <2>5, <2>6 DEF Refunded
        <2> QED BY <2>1, <2>3, <2>7 DEF MoneyStep
    <1> QED BY <1>1, <1>2

LEMMA OperateMoney ==
    ASSUME TypeOK, Inv, Operate
    PROVE  MoneyStep
    <1>1. ASSUME NEW o \in OrderIds, NEW fee \in Fees \cup {0},
                 NEW lostFee \in LostFees, MarkLost(o, fee, lostFee)
          PROVE  MoneyStep
        <2> DEFINE r == LostRow(orders[o], fee, lostFee)
                   t == MaxOf(fee, lostFee)
        <2>1. fee \in Nat /\ lostFee \in Nat
            BY <1>1, FeesAreNat DEF MarkLost
        <2>2. /\ r \in OrderRow /\ r.depositStatus = 2
              /\ r.user = orders[o].user /\ r.depositAmt = orders[o].depositAmt
            <3>1. orders[o] \in OrderRow
                BY Kept
            <3> HIDE StoreAssumption, LifecycleAssumption
            <3> QED BY <2>1, <3>1, LostRowFacts
        <2>3. /\ orders' = [orders EXCEPT ![o] = r] /\ t \in Nat
              /\ CloseDeposit(o, orders[o], t) /\ UNCHANGED <<credited, lastId>>
            BY <1>1, <2>1 DEF MarkLost, LostTx, Rest, MaxOf
        <2> HIDE DEF r, t
        <2>4. r.depositStatus # 1
            BY <2>2
        <2> QED BY <2>2, <2>3, <2>4, CloseCloses
    <1>2. ASSUME NEW o \in OrderIds, NEW damageFee \in DamageFees,
                 MarkDamage(o, damageFee)
          PROVE  MoneyStep
        <2> DEFINE r == DamagedRow(orders[o], damageFee)
        <2>1. /\ r \in OrderRow /\ r.user = orders[o].user
              /\ r.depositAmt = orders[o].depositAmt
              /\ r.depositStatus = orders[o].depositStatus
            BY Kept, DamagedRowFacts
        <2>2. /\ orders' = [orders EXCEPT ![o] = r]
              /\ UNCHANGED <<balance, credited, lastId, ledger>>
            BY <1>2 DEF MarkDamage, DamageTx, Rest
        <2> HIDE DEF r
        <2> QED BY <2>1, <2>2, RewriteIsIdle
    <1>3. ASSUME NEW d \in 1..filed, RejectDispute(d)
          PROVE  MoneyStep
        BY <1>3, UntouchedIsIdle DEF RejectDispute, storeVars
    <1> QED BY <1>1, <1>2, <1>3, DisputeMoney DEF Operate

\* No handler moves money in any other way.
LEMMA EveryStepIsAMoneyStep ==
    ASSUME TypeOK, Inv, [Next]_vars
    PROVE  MoneyStep
    <1>1. ASSUME NEW u \in Users, NEW amount \in TopUps, TopUp(u, amount)
          PROVE  MoneyStep
        <2>1. amount \in Nat
            OBVIOUS
        <2> QED BY <1>1, <2>1 DEF TopUp, Paid, MoneyStep
    <1>2. ASSUME NEW s \in Slots, NEW b \in Batteries, AssignBattery(s, b)
          PROVE  MoneyStep
        BY <1>2, UntouchedIsIdle DEF AssignBattery, Rest
    <1>3. CASE Maintain
        BY <1>3, UntouchedIsIdle
           DEF Maintain, CreateRepair, ResolveRepair, UpdateCabinet, SetCabinet
    <1>4. CASE UNCHANGED vars
        BY <1>4, UntouchedIsIdle DEF vars
    <1> QED BY <1>1, <1>2, <1>3, <1>4, ScanMoney, ReportMoney, CompensateMoney,
               ReturnMoney, OperateMoney DEF Next, Common

-----------------------------------------------------------------------------
(* The wallets reconcile *)

LEMMA ColumnType ==
    ASSUME TypeOK, NEW u \in Users
    PROVE  /\ Frozen(u) \in [1..lastId -> Nat]
           /\ GivenBack(u) \in [1..lastId -> Nat]
    <1>1. ASSUME NEW o \in OrderIds
          PROVE  ledger[o].freeze \in Nat /\ ledger[o].release + ledger[o].refund \in Nat
        BY Kept DEF LedgerRow
    <1> QED BY <1>1 DEF Frozen, GivenBack, OrderIds

\* The same after a step.
LEMMA ColumnTypeAfter ==
    ASSUME TypeOK', NEW u \in Users
    PROVE  /\ Frozen(u)' \in [1..lastId' -> Nat]
           /\ GivenBack(u)' \in [1..lastId' -> Nat]
    <1>0. ledger' \in [OrderIds' -> LedgerRow]
        BY DEF TypeOK, StoreTypeOK
    <1>1. ASSUME NEW o \in OrderIds'
          PROVE  /\ ledger'[o].freeze \in Nat
                 /\ ledger'[o].release + ledger'[o].refund \in Nat
        BY <1>0 DEF LedgerRow
    <1> QED BY <1>1 DEF Frozen, GivenBack, OrderIds

\* What a step that adds no order does to the two sums, if it writes only the
\* records of order o: nothing is frozen, and o gives back more or less.
LEMMA OneRecordChanged ==
    ASSUME TypeOK, TypeOK', lastId' = lastId, NEW u \in Users, NEW o \in OrderIds,
           \A p \in OrderIds : /\ orders'[p].user = orders[p].user
                               /\ ledger'[p].freeze = ledger[p].freeze
                               /\ p # o => ledger'[p] = ledger[p]
    PROVE  /\ SumTo(Frozen(u), lastId)' = SumTo(Frozen(u), lastId)
           /\ SumTo(Frozen(u), lastId) \in Nat
           /\ SumTo(GivenBack(u), lastId) \in Nat
           /\ SumTo(GivenBack(u), lastId)' \in Nat
           /\ SumTo(GivenBack(u), lastId) + GivenBack(u)'[o] =
                 SumTo(GivenBack(u), lastId)' + GivenBack(u)[o]
    <1> DEFINE f == Frozen(u)
               g == GivenBack(u)
               h == GivenBack(u)'
    <1>1. /\ lastId \in Nat /\ o \in 1..lastId
          /\ f \in [1..lastId -> Nat] /\ g \in [1..lastId -> Nat]
          /\ h \in [1..lastId -> Nat]
        BY Kept, ColumnType, ColumnTypeAfter DEF OrderIds
    <1>2. Frozen(u)' = f
        BY DEF Frozen, OrderIds
    <1>3. \A p \in 1..lastId : p # o => g[p] = h[p]
        BY DEF GivenBack, OrderIds
    <1> HIDE DEF f, g, h
    <1>4. /\ SumTo(g, lastId) \in Nat /\ SumTo(h, lastId) \in Nat
          /\ SumTo(g, lastId) + h[o] = SumTo(h, lastId) + g[o]
        BY <1>1, <1>3, SumWithOneChanged
    <1>5. SumTo(f, lastId) \in Nat
        BY <1>1, SumType
    <1> QED BY <1>2, <1>4, <1>5 DEF f, g, h

\* What such a step does to the sums, more coarsely: the records of order o
\* give back more, to its user's wallet.
GaveBack(o, back) ==
    /\ balance' = [balance EXCEPT ![orders[o].user] = @ + back]
    /\ UNCHANGED <<credited, lastId>>
    /\ \A p \in OrderIds : /\ orders'[p].user = orders[p].user
                           /\ ledger'[p].freeze = ledger[p].freeze
                           /\ p # o => ledger'[p] = ledger[p]
    /\ ledger'[o].release + ledger'[o].refund =
          ledger[o].release + ledger[o].refund + back

Unmoved ==
    /\ UNCHANGED <<balance, credited, lastId, ledger>>
    /\ \A o \in OrderIds : orders'[o].user = orders[o].user

WalletMove ==
    \/ Unmoved
    \/ \E u \in Users, amount \in Nat : Paid(u, amount)
    \/ \E o \in OrderIds, back \in Nat : GaveBack(o, back)
    \/ \E u \in Users : Opened(u)

LEMMA MoneyMoves ==
    ASSUME TypeOK, MoneyStep
    PROVE  WalletMove
    <1>0. ledger \in [OrderIds -> LedgerRow]
        BY Kept
    <1>1. CASE Idle
        BY <1>1 DEF Idle, SameDeposit, Unmoved, WalletMove
    <1>2. ASSUME NEW o \in OrderIds, NEW refund \in Nat, Refunded(o, refund)
          PROVE  WalletMove
        <2>1. ledger[o] \in LedgerRow /\ ledger[o].refund \in Nat
              /\ ledger[o].release \in Nat
            BY Kept DEF LedgerRow
        <2> DEFINE l == [ledger[o] EXCEPT !.refund = @ + refund]
        <2>2. l.freeze = ledger[o].freeze /\ l.release = ledger[o].release
              /\ l.refund = ledger[o].refund + refund
            BY <2>1 DEF LedgerRow
        <2>3. ledger'[o] = l /\ \A p \in OrderIds : p # o => ledger'[p] = ledger[p]
            BY <1>0, <1>2 DEF Refunded
        <2> HIDE DEF l
        <2>4. ledger'[o].release + ledger'[o].refund =
                 ledger[o].release + ledger[o].refund + refund
            BY <2>1, <2>2, <2>3
        <2>5. \A p \in OrderIds : /\ orders'[p].user = orders[p].user
                                  /\ ledger'[p].freeze = ledger[p].freeze
                                  /\ p # o => ledger'[p] = ledger[p]
            BY <1>2, <2>2, <2>3 DEF Refunded, SameDeposit
        <2>6. GaveBack(o, refund)
            BY <1>2, <2>4, <2>5 DEF Refunded, GaveBack
        <2> QED BY <2>6 DEF WalletMove
    <1>3. ASSUME NEW o \in OrderIds, NEW part \in 0..orders[o].depositAmt,
                 Closed(o, part)
          PROVE  WalletMove
        <2> DEFINE rest == orders[o].depositAmt - part
        <2>1. /\ orders[o].depositAmt \in Nat /\ ledger[o].release \in Nat
              /\ ledger[o].refund \in Nat
            BY Kept DEF LedgerRow, OrderRow
        <2>2. rest \in Nat
            BY <2>1
        <2>3. /\ ledger'[o].release = ledger[o].release + rest
              /\ ledger'[o].refund = ledger[o].refund
              /\ balance' = [balance EXCEPT ![orders[o].user] = @ + rest]
              /\ UNCHANGED <<credited, lastId>>
            BY <1>3 DEF Closed
        <2>4. \A p \in OrderIds : /\ orders'[p].user = orders[p].user
                                  /\ ledger'[p].freeze = ledger[p].freeze
                                  /\ p # o => ledger'[p] = ledger[p]
            BY <1>3 DEF Closed, SameDeposit
        <2> HIDE DEF rest
        <2>5. ledger'[o].release + ledger'[o].refund =
                 ledger[o].release + ledger[o].refund + rest
            BY <2>1, <2>2, <2>3
        <2>6. GaveBack(o, rest)
            BY <2>3, <2>4, <2>5 DEF GaveBack
        <2> QED BY <2>2, <2>6 DEF WalletMove
    <1> QED BY <1>1, <1>2, <1>3 DEF MoneyStep, WalletMove

\* No kind of move creates or loses money.
LEMMA WalletStep ==
    ASSUME TypeOK, TypeOK', WalletReconciles, WalletMove
    PROVE  WalletReconciles'
    <1> SUFFICES ASSUME NEW u \in Users
                 PROVE  balance'[u] + SumTo(Frozen(u), lastId)' =
                           credited'[u] + SumTo(GivenBack(u), lastId)'
        BY DEF WalletReconciles
    <1>0. /\ balance \in [Users -> Nat] /\ credited \in [Users -> Nat]
          /\ lastId \in Nat /\ ledger \in [OrderIds -> LedgerRow]
        BY Kept DEF TypeOK
    <1> DEFINE f == SumTo(Frozen(u), lastId)
               g == SumTo(GivenBack(u), lastId)
    <1>1. /\ f \in Nat /\ g \in Nat
          /\ balance[u] + f = credited[u] + g
        <2>1. /\ Frozen(u) \in [1..lastId -> Nat]
              /\ GivenBack(u) \in [1..lastId -> Nat]
            BY ColumnType
        <2> QED BY <1>0, <2>1, SumType DEF WalletReconciles
    <1>2. ASSUME lastId' = lastId, UNCHANGED ledger,
                 \A p \in OrderIds : orders'[p].user = orders[p].user
          PROVE  /\ SumTo(Frozen(u), lastId)' = f
                 /\ SumTo(GivenBack(u), lastId)' = g
        BY <1>2 DEF Frozen, GivenBack, OrderIds
    <1>3. CASE Unmoved
        BY <1>1, <1>2, <1>3 DEF Unmoved
    <1>4. ASSUME NEW v \in Users, NEW amount \in Nat, Paid(v, amount)
          PROVE  balance'[u] + SumTo(Frozen(u), lastId)' =
                    credited'[u] + SumTo(GivenBack(u), lastId)'
        <2>1. /\ SumTo(Frozen(u), lastId)' = f
              /\ SumTo(GivenBack(u), lastId)' = g
            BY <1>2, <1>4 DEF Paid
        <2>2. \/ balance'[u] = balance[u] /\ credited'[u] = credited[u]
              \/ /\ balance'[u] = balance[u] + amount
                 /\ credited'[u] = credited[u] + amount
            BY <1>0, <1>4 DEF Paid
        <2>3. balance[u] \in Nat /\ credited[u] \in Nat
            BY <1>0
        <2> HIDE DEF f, g
        <2> QED BY <1>1, <2>1, <2>2, <2>3
    <1>5. ASSUME NEW o \in OrderIds, NEW back \in Nat, GaveBack(o, back)
          PROVE  balance'[u] + SumTo(Frozen(u), lastId)' =
                    credited'[u] + SumTo(GivenBack(u), lastId)'
        <2> DEFINE h == SumTo(GivenBack(u), lastId)'
                   x == GivenBack(u)[o]
                   y == GivenBack(u)'[o]
        <2>0. /\ lastId' = lastId /\ UNCHANGED credited
              /\ \A p \in OrderIds : /\ orders'[p].user = orders[p].user
                                     /\ ledger'[p].freeze = ledger[p].freeze
                                     /\ p # o => ledger'[p] = ledger[p]
              /\ ledger'[o].release + ledger'[o].refund =
                    ledger[o].release + ledger[o].refund + back
              /\ balance' = [balance EXCEPT ![orders[o].user] = @ + back]
            BY <1>5 DEF GaveBack
        <2>1. SumTo(Frozen(u), lastId)' = f /\ h \in Nat /\ g + y = h + x
            BY <2>0, OneRecordChanged
        <2>2. x \in Nat /\ balance[u] \in Nat /\ credited[u] \in Nat
            BY <1>0, ColumnType DEF OrderIds
        <2>3. CASE orders[o].user = u
            <3>1. x = ledger[o].release + ledger[o].refund
                BY <2>3 DEF GivenBack
            <3>2. y = ledger'[o].release + ledger'[o].refund
                BY <2>0, <2>3 DEF GivenBack, OrderIds
            <3>3. y = x + back /\ balance'[u] = balance[u] + back
                BY <1>0, <2>0, <2>3, <3>1, <3>2
            <3> HIDE DEF f, g, h, x, y
            <3>4. h = g + back
                BY <1>1, <2>1, <2>2, <3>3
            <3> QED BY <1>1, <2>0, <2>1, <2>2, <3>3, <3>4 DEF h
        <2>4. CASE orders[o].user # u
            <3>1. x = 0 /\ y = 0
                BY <2>0, <2>4 DEF GivenBack, OrderIds
            <3>2. balance'[u] = balance[u]
                BY <1>0, <2>0, <2>4
            <3> HIDE DEF f, g, h, x, y
            <3>3. h = g
                BY <1>1, <2>1, <3>1
            <3> QED BY <1>1, <2>0, <2>1, <3>2, <3>3 DEF h
        <2> QED BY <2>3, <2>4
    <1>6. ASSUME NEW v \in Users, Opened(v)
          PROVE  balance'[u] + SumTo(Frozen(u), lastId)' =
                    credited'[u] + SumTo(GivenBack(u), lastId)'
        <2> DEFINE n == lastId + 1
                   d == IF v = u THEN DepositFor(v) ELSE 0
        <2>1. DepositFor(v) \in Nat /\ balance[v] >= DepositFor(v)
            BY <1>6 DEF DepositFor, Opened, CanAfford
        <2>2. /\ lastId' = n /\ OrderIds' = 1..n /\ n \in OrderIds'
              /\ OrderIds \subseteq OrderIds'
            BY <1>0, <1>6 DEF Opened, OrderIds
        <2>3. /\ Frozen(u) \in [1..lastId -> Nat]
              /\ GivenBack(u) \in [1..lastId -> Nat]
              /\ Frozen(u)' \in [1..n -> Nat]
              /\ GivenBack(u)' \in [1..n -> Nat]
            BY <2>2, ColumnType, ColumnTypeAfter
        <2>4. /\ \A i \in 1..lastId : Frozen(u)[i] = Frozen(u)'[i]
              /\ \A i \in 1..lastId : GivenBack(u)[i] = GivenBack(u)'[i]
            BY <1>6, <2>2 DEF Opened, Frozen, GivenBack, OrderIds
        <2>5. Frozen(u)'[n] = d /\ GivenBack(u)'[n] = 0
            BY <1>6, <2>2 DEF Opened, Frozen, GivenBack
        <2>6. SumTo(Frozen(u)', n) = f + d
            BY <1>0, <2>3, <2>4, <2>5, SumWithOneMore
        <2>7. SumTo(GivenBack(u)', n) = g
            <3>1. SumTo(GivenBack(u)', n) = g + GivenBack(u)'[n]
                BY <1>0, <2>3, <2>4, SumWithOneMore
            <3> HIDE DEF g
            <3> QED BY <1>1, <2>5, <3>1
        <2>8. balance'[u] + d = balance[u] /\ credited' = credited
              /\ balance'[u] \in Nat /\ d \in Nat
            BY <1>0, <1>6, <2>1 DEF Opened
        <2>9. /\ SumTo(Frozen(u), lastId)' = f + d
              /\ SumTo(GivenBack(u), lastId)' = g
            BY <2>2, <2>6, <2>7
        <2> HIDE DEF d, f, g
        <2> QED BY <1>0, <1>1, <2>8, <2>9
    <1> QED BY <1>3, <1>4, <1>5, <1>6 DEF WalletMove

LEMMA InitReconciles == Init => WalletReconciles
    <1> SUFFICES ASSUME Init, NEW u \in Users
                 PROVE  balance[u] + SumTo(Frozen(u), lastId) =
                           credited[u] + SumTo(GivenBack(u), lastId)
        BY DEF WalletReconciles
    <1>1. lastId = 0 /\ balance[u] = 0 /\ credited[u] = 0
        BY DEF Init
    <1>2. Frozen(u) = GivenBack(u)
        BY <1>1 DEF Frozen, GivenBack, OrderIds
    <1> QED BY <1>1, <1>2

\* Whatever the handlers, reports and operators do, and for any number of
\* users and orders and any amounts, a wallet holds what the payments credited,
\* less what deposits hold or have lost, plus what disputes refunded.
THEOREM WalletsReconcile == Spec => []WalletReconciles
    <1>1. TypeOK /\ Inv /\ TypeOK' /\ WalletReconciles /\ [Next]_vars
             => WalletReconciles'
        BY EveryStepIsAMoneyStep, MoneyMoves, WalletStep
    <1> QED BY <1>1, InitReconciles, TypeCorrect, InvHolds, PTL DEF Spec

-----------------------------------------------------------------------------
(* The deposit account is implemented *)

LEMMA InitAbstract == Init => Abstract!Init
    <1> SUFFICES ASSUME Init PROVE Abstract!Init
        OBVIOUS
    <1>1. OrderIds = {} /\ 1..0 = {}
        BY DEF Init, OrderIds
    <1>2. Deposits = [i \in 1..0 |-> 0]
        BY <1>1 DEF Deposits
    <1> QED BY <1>2 DEF Init, Abstract!Init

\* The entry of order o in the abstract account.
Entry(o) ==
    [owner |-> orders[o].user, amount |-> orders[o].depositAmt,
     open |-> orders[o].depositStatus = 1, kept |-> ledger[o].deduct]

\* Every kind of step is a step of the account, or none.
LEMMA StepAbstract ==
    ASSUME TypeOK, TypeOK', Inv, MoneyStep
    PROVE  [Abstract!Next]_<<balance, Deposits>>
    <1>0. /\ balance \in [Users -> Nat] /\ balance' \in [Users -> Nat]
          /\ lastId \in Nat /\ ledger \in [OrderIds -> LedgerRow]
        BY Kept DEF TypeOK, StoreTypeOK
    <1>1. /\ Deposits = [o \in OrderIds |-> Entry(o)]
          /\ Deposits' = [o \in OrderIds' |-> Entry(o)']
          /\ DOMAIN Deposits = OrderIds
        BY DEF Deposits, Entry
    <1>2. ASSUME NEW o \in OrderIds, SameDeposit(o),
                 ledger'[o].deduct = ledger[o].deduct
          PROVE  Entry(o)' = Entry(o)
        BY <1>2 DEF Entry, SameDeposit
    <1>3. ASSUME lastId' = lastId, \A o \in OrderIds : Entry(o)' = Entry(o)
          PROVE  Deposits' = Deposits
        BY <1>1, <1>3 DEF OrderIds
    <1>4. CASE Idle
        BY <1>2, <1>3, <1>4 DEF Idle
    <1>5. ASSUME NEW v \in Users, NEW n \in Nat, Deposits' = Deposits,
                 balance' = [balance EXCEPT ![v] = @ + n]
          PROVE  Abstract!Next
        <2>1. balance'[v] \in Nat /\ balance'[v] >= balance[v]
            BY <1>0, <1>5
        <2>2. balance' = [balance EXCEPT ![v] = balance'[v]]
            BY <1>0, <1>5
        <2>3. Abstract!Credit(v)
            BY <1>5, <2>1, <2>2 DEF Abstract!Credit
        <2> QED BY <2>3 DEF Abstract!Next
    <1>6. ASSUME NEW o \in OrderIds, NEW refund \in Nat, Refunded(o, refund)
          PROVE  Abstract!Next
        <2>1. ASSUME NEW p \in OrderIds
              PROVE  ledger'[p].deduct = ledger[p].deduct
            <3>1. ledger[p] \in LedgerRow
                BY Kept
            <3> QED BY <1>0, <1>6, <3>1 DEF Refunded, LedgerRow
        <2>2. Deposits' = Deposits
            BY <1>2, <1>3, <1>6, <2>1 DEF Refunded
        <2> QED BY <1>5, <1>6, <2>2, Kept DEF Refunded
    <1>7. ASSUME NEW o \in OrderIds, NEW part \in 0..orders[o].depositAmt,
                 Closed(o, part)
          PROVE  Abstract!Next
        <2> DEFINE e == [owner |-> orders[o].user, amount |-> orders[o].depositAmt,
                         open |-> FALSE, kept |-> part]
        <2>1. ledger[o].deduct \in Nat /\ ledger[o].release \in Nat /\ part \in Nat
            BY Kept DEF LedgerRow
        <2>2. ledger[o].deduct + ledger[o].release = 0
            BY <1>7 DEF Closed, Inv, Settled
        <2>3. ledger'[o].deduct = ledger[o].deduct + part
            BY <1>7 DEF Closed
        <2>4. ledger'[o].deduct = part
            BY <2>1, <2>2, <2>3
        <2>5. Entry(o)' = e
            BY <1>7, <2>4 DEF Closed, Entry
        <2>6. Entry(o).open /\ Entry(o).owner = orders[o].user
              /\ Entry(o).amount = orders[o].depositAmt
            BY <1>7 DEF Closed, Entry
        <2>7. \A p \in OrderIds : p # o => Entry(p)' = Entry(p)
            BY <1>2, <1>7 DEF Closed
        <2>8. [Entry(o) EXCEPT !.open = FALSE, !.kept = part] = e
            <3> DEFINE a == orders[o].user
                       b == orders[o].depositAmt
                       c == orders[o].depositStatus = 1
                       d == ledger[o].deduct
                       no == FALSE
                       e1 == [Entry(o) EXCEPT !.open = no]
            <3>1. Entry(o) = [owner |-> a, amount |-> b, open |-> c, kept |-> d]
                BY DEF Entry
            <3> HIDE DEF a, b, c, d, no
            <3>2. e1 = [owner |-> a, amount |-> b, open |-> no, kept |-> d]
                BY <3>1
            <3>3. [Entry(o) EXCEPT !.open = no, !.kept = part] =
                     [e1 EXCEPT !.kept = part]
                OBVIOUS
            <3> HIDE DEF e1
            <3>4. [e1 EXCEPT !.kept = part] =
                     [owner |-> a, amount |-> b, open |-> no, kept |-> part]
                BY <3>2
            <3> QED BY <3>3, <3>4 DEF a, b, no
        <2> HIDE DEF e
        <2>9. Deposits' = [Deposits EXCEPT ![o] = e]
            BY <1>1, <1>7, <2>5, <2>7 DEF Closed, OrderIds
        <2>10. Deposits[o] = Entry(o)
            BY <1>1
        <2>11. Deposits' = [Deposits EXCEPT ![o].open = FALSE, ![o].kept = part]
            BY <1>1, <2>8, <2>9, <2>10
        <2>12. balance' = [balance EXCEPT ![Deposits[o].owner] =
                              @ + (Deposits[o].amount - part)]
            BY <1>7, <2>6, <2>10 DEF Closed
        <2>13. Abstract!Close(o, part)
            BY <2>6, <2>10, <2>11, <2>12 DEF Abstract!Close
        <2> QED BY <1>1, <2>6, <2>10, <2>13 DEF Abstract!Next, Abstract!Ids
    <1>8. ASSUME NEW v \in Users, Opened(v)
          PROVE  Abstract!Next
        <2> DEFINE n == lastId + 1
                   d == DepositFor(v)
                   e == [owner |-> v, amount |-> d, open |-> d > 0, kept |-> 0]
        <2>1. d \in Nat /\ balance[v] >= d /\ balance[v] \in Nat
            BY <1>0, <1>8 DEF DepositFor, Opened, CanAfford
        <2>2. /\ lastId' = n /\ OrderIds' = 1..n /\ OrderIds = 1..lastId
              /\ n \notin OrderIds
            BY <1>0, <1>8 DEF Opened, OrderIds
        <2>3. \A o \in OrderIds : Entry(o)' = Entry(o)
            BY <1>2, <1>8 DEF Opened, SameDeposit
        <2>4. /\ orders'[n].user = v /\ orders'[n].depositAmt = d
              /\ (orders'[n].depositStatus = 1) = (d > 0)
              /\ ledger'[n].deduct = 0
            BY <1>8, <2>1, <2>2 DEF Opened
        <2>5. [owner |-> orders'[n].user, amount |-> orders'[n].depositAmt,
               open |-> orders'[n].depositStatus = 1, kept |-> ledger'[n].deduct]
                 = e
            BY <2>4
        <2> HIDE DEF e, d
        <2>6. Deposits' = [i \in 1..n |-> IF i = n THEN e ELSE Deposits[i]]
            <3>1. Deposits' = [i \in 1..n |->
                     [owner |-> orders'[i].user, amount |-> orders'[i].depositAmt,
                      open |-> orders'[i].depositStatus = 1,
                      kept |-> ledger'[i].deduct]]
                BY <2>2 DEF Deposits
            <3>2. ASSUME NEW i \in 1..n, i # n
                  PROVE  Deposits[i] =
                     [owner |-> orders'[i].user, amount |-> orders'[i].depositAmt,
                      open |-> orders'[i].depositStatus = 1,
                      kept |-> ledger'[i].deduct]
                <4>1. i \in OrderIds
                    BY <1>0, <2>2, <3>2
                <4> QED BY <1>1, <2>3, <4>1 DEF Entry
            <3> QED BY <2>5, <3>1, <3>2
        <2>7. balance' = [balance EXCEPT ![v] = @ - d]
            BY <1>8 DEF Opened, d
        <2>8. Abstract!Open(v, d, lastId)
            BY <1>1, <2>2, <2>6, <2>7 DEF Abstract!Open, Abstract!Ids, e
        <2>9. lastId \in Abstract!Ids \cup {0} /\ d \in 0..balance[v]
            BY <1>0, <1>1, <2>1, <2>2 DEF Abstract!Ids
        <2> QED BY <2>8, <2>9 DEF Abstract!Next
    <1>9. ASSUME NEW v \in Users, NEW amount \in Nat, Paid(v, amount)
          PROVE  Abstract!Next
        <2>1. Deposits' = Deposits
            BY <1>9 DEF Paid, Deposits, OrderIds
        <2> QED BY <1>5, <1>9, <2>1 DEF Paid
    <1> QED BY <1>4, <1>6, <1>7, <1>8, <1>9 DEF MoneyStep, Idle

\* The handlers, reports and operators implement the deposit account, for every
\* value of the constants: money leaves a wallet only into a deposit its owner
\* can afford, and a deposit is split once, between the service and that wallet.
THEOREM DepositAccountIsImplemented == Spec => Refinement
    <1>1. TypeOK /\ Inv /\ TypeOK' /\ [Next]_vars
             => [Abstract!Next]_<<balance, Deposits>>
        BY EveryStepIsAMoneyStep, StepAbstract
    <1> QED BY <1>1, InitAbstract, TypeCorrect, InvHolds, PTL
            DEF Spec, Refinement, Abstract!Spec

-----------------------------------------------------------------------------
(* The wallets reconcile under overlap *)

HIDE StoreAssumption
HIDE LifecycleAssumption

ScanKinds == {"rent", "abnormal"}

\* The handlers that write a balance, other than scans.
Payers == {"detect", "manual", "lost", "decide", "compensate",
           "credit", "dispute", "scan"}

\* A scan writes back the balance it has read: the lock of the scans of one
\* user outlives its holder, and nothing else that writes a balance overlaps
\* a scan.
WalletApart ==
    /\ "user_rent" \notin Expiring
    /\ \A F \in Families : F \cap ScanKinds # {} => F \cap Payers = {}

\* Every request knows whose order it settles, and every scan what its user
\* still has, and is the only one of its user.
UserRead(w) == w.kind \in OrderKinds => w.got.user = orders[w.order].user

BalanceRead(w) == w.kind \in ScanKinds => w.bal = balance[w.user]

OneScan ==
    \A r, q \in Requests :
        /\ work[r].kind \in ScanKinds /\ work[q].kind \in ScanKinds
        /\ work[r].user = work[q].user
        => r = q

BalancesInv ==
    /\ \A r \in Requests : UserRead(work[r]) /\ BalanceRead(work[r])
    /\ Together /\ OneScan

\* While a handler writes a balance, no scan has read one.
LEMMA NoScanNearPayers ==
    ASSUME BalancesInv, WalletApart
    PROVE  /\ \A r, q \in Requests :
                 work[r].kind \in Payers => work[q].kind \notin ScanKinds
           /\ \A kind \in Payers, q \in Requests :
                 MayOverlap(kind) => work[q].kind \notin ScanKinds
    <1>1. ASSUME NEW r \in Requests, NEW q \in Requests,
                 work[r].kind \in Payers, work[q].kind \in ScanKinds
          PROVE  FALSE
        <2>1. r # q /\ work[r].kind # "idle" /\ work[q].kind # "idle"
            BY <1>1 DEF Payers, ScanKinds
        <2>2. PICK F \in Families : {work[r].kind, work[q].kind} \subseteq F
            BY <2>1 DEF BalancesInv, Together
        <2> QED BY <1>1, <2>2 DEF WalletApart
    <1>2. ASSUME NEW kind \in Payers, NEW q \in Requests,
                 MayOverlap(kind), work[q].kind \in ScanKinds
          PROVE  FALSE
        <2>1. work[q].kind # "idle"
            BY <1>2 DEF ScanKinds
        <2>2. PICK F \in Families : {kind, work[q].kind} \subseteq F
            BY <1>2, <2>1 DEF MayOverlap
        <2> QED BY <1>2, <2>2 DEF WalletApart
    <1> QED BY <1>1, <1>2

\* A step after which every scan still at work finds its balance unchanged.
LEMMA BalancesAfter ==
    ASSUME RacesInv, BalancesInv, WorkEnds,
           \A o \in OrderIds : orders'[o].user = orders[o].user,
           \A q \in Requests :
              work[q].kind \in ScanKinds /\ work'[q] = work[q]
                 => balance'[work[q].user] = balance[work[q].user]
    PROVE  BalancesInv'
    <1>1. \A q \in Requests : work'[q].kind # "idle" => work'[q] = work[q]
        BY DEF WorkEnds, NotWorking
    <1>2. Together'
        BY <1>1 DEF BalancesInv, Together
    <1>3. OneScan'
        <2>1. "idle" \notin ScanKinds
            BY DEF ScanKinds
        <2> QED BY <1>1, <2>1 DEF BalancesInv, OneScan
    <1>4. ASSUME NEW q \in Requests
          PROVE  UserRead(work[q])' /\ BalanceRead(work[q])'
        <2>1. CASE work'[q].kind = "idle"
            BY <2>1 DEF UserRead, BalanceRead, ScanKinds, OrderKinds, Handlers
        <2>2. CASE work'[q] = work[q]
            BY <2>2, AtWork DEF BalancesInv, UserRead, BalanceRead
        <2> QED BY <1>1, <2>1, <2>2
    <1> QED BY <1>2, <1>3, <1>4 DEF BalancesInv

\* A request that starts, with what it has read.
LEMMA WorkStartsBalance ==
    ASSUME RacesInv, BalancesInv, NEW r \in Requests, NEW w, Start(r, w),
           UNCHANGED <<balance, orders>>,
           UserRead(w), BalanceRead(w),
           w.kind \in ScanKinds =>
              \A q \in Requests : work[q].kind \in ScanKinds => work[q].user # w.user
    PROVE  BalancesInv'
    <1>0. work = [q \in Requests |-> work[q]]
        BY DEF RacesInv
    <1>1. /\ work[r].kind = "idle" /\ work'[r] = w
          /\ \A q \in Requests : q # r => work'[q] = work[q]
          /\ \A q \in Requests : \/ work[q].kind = "idle"
                                 \/ \E F \in Families : {w.kind, work[q].kind} \subseteq F
        BY <1>0 DEF Start, MayOverlap
    <1>2. \A q \in Requests : UserRead(work[q])' /\ BalanceRead(work[q])'
        BY <1>1 DEF BalancesInv, UserRead, BalanceRead
    <1>3. Together'
        BY <1>1 DEF BalancesInv, Together
    <1>4. OneScan'
        BY <1>1 DEF BalancesInv, OneScan
    <1> QED BY <1>2, <1>3, <1>4 DEF BalancesInv

\* A step that rewrites one order, and no money.
LEMMA RowMoves ==
    ASSUME TypeOK, NEW o \in OrderIds, NEW row \in OrderRow,
           orders' = [orders EXCEPT ![o] = row], row.user = orders[o].user,
           UNCHANGED <<balance, credited, lastId, ledger>>
    PROVE  WalletMove /\ \A p \in OrderIds : orders'[p].user = orders[p].user
    BY OrderRewritten DEF Unmoved, WalletMove

\* The commit of a settlement: whatever it has read of the deposit, what it
\* releases and what it pays is the same.
LEMMA StaleCloseMoves ==
    ASSUME TypeOK, NEW o \in OrderIds, NEW got \in OrderRow, NEW fee \in Nat,
           NEW row \in OrderRow, CloseDeposit(o, got, fee),
           orders' = [orders EXCEPT ![o] = row],
           got.user = orders[o].user, row.user = orders[o].user,
           UNCHANGED <<credited, lastId>>
    PROVE  WalletMove /\ \A p \in OrderIds : orders'[p].user = orders[p].user
    <1>0. /\ ledger[o] \in LedgerRow /\ ledger \in [OrderIds -> LedgerRow]
        BY Kept
    <1>1. \A p \in OrderIds : orders'[p].user = orders[p].user
        BY OrderRewritten
    <1>2. CASE ~HoldsDeposit(got)
        BY <1>1, <1>2 DEF CloseDeposit, Unmoved, WalletMove
    <1>3. CASE HoldsDeposit(got)
        <2> DEFINE part == Deducted(got, fee)
                   rest == Released(got, fee)
        <2>1. part \in Nat /\ rest \in Nat
            BY <1>3 DEF Deducted, Released, OrderRow
        <2>2. /\ balance' = [balance EXCEPT ![got.user] = @ + rest]
              /\ ledger' = [ledger EXCEPT ![o].deduct = @ + part,
                                          ![o].release = @ + rest]
            BY <1>3 DEF CloseDeposit
        <2> HIDE DEF part, rest
        <2>3. /\ ledger'[o] = [ledger[o] EXCEPT !.deduct = @ + part,
                                                !.release = @ + rest]
              /\ \A p \in OrderIds : p # o => ledger'[p] = ledger[p]
            BY <1>0, <2>2
        <2>4. /\ ledger'[o].freeze = ledger[o].freeze
              /\ ledger'[o].release = ledger[o].release + rest
              /\ ledger'[o].refund = ledger[o].refund
            BY <1>0, <2>3 DEF LedgerRow
        <2>5. ledger[o].release \in Nat /\ ledger[o].refund \in Nat
            BY <1>0 DEF LedgerRow
        <2>6. ledger'[o].release + ledger'[o].refund =
                 ledger[o].release + ledger[o].refund + rest
            BY <2>1, <2>4, <2>5
        <2>7. GaveBack(o, rest)
            BY <1>1, <2>2, <2>3, <2>4, <2>6 DEF GaveBack
        <2> QED BY <1>1, <2>1, <2>7 DEF WalletMove
    <1> QED BY <1>2, <1>3

LEMMA BeginBalances ==
    ASSUME RacesInv, BalancesInv, WalletApart, NEW r \in Requests, Begin(r)
    PROVE  WalletMove /\ BalancesInv'
    <1>0. TypeOK
        BY DEF RacesInv
    <1>1. UNCHANGED <<balance, credited, lastId, orders, ledger>>
        BY DEF Begin, StartDetect, StartManual, StartLost, StartDamage, StartFail,
               StartDecide, StartCompensate, StartRent, StartAbnormal,
               StartInventory, vars, storeVars
    <1>2. WalletMove
        BY <1>1 DEF Unmoved, WalletMove
    <1>3. ASSUME NEW o \in OrderIds, NEW kind \in OrderKinds, NEW action,
                 Start(r, Read(kind, o, action))
          PROVE  BalancesInv'
        <2> DEFINE w == Read(kind, o, action)
        <2>1. w.kind = kind /\ w.order = o /\ w.got = orders[o]
            BY DEF Read
        <2>2. w.kind \notin ScanKinds /\ Start(r, w)
            BY <1>3, <2>1 DEF OrderKinds, ScanKinds
        <2> HIDE DEF w
        <2>3. UserRead(w) /\ BalanceRead(w)
            BY <2>1, <2>2 DEF UserRead, BalanceRead
        <2> QED BY <1>1, <2>2, <2>3, WorkStartsBalance
    <1>4. ASSUME NEW w, NEW u, Start(r, w), LockFree("user_rent", u),
                 w.kind \in ScanKinds, w.user = u, w.bal = balance[u]
          PROVE  BalancesInv'
        <2>1. ASSUME NEW q \in Requests, work[q].kind \in ScanKinds
              PROVE  work[q].user # u
            <3>1. LockOf(work[q]) = <<"user_rent", work[q].user>>
                BY <2>1 DEF LockOf, ScanKinds
            <3> QED BY <1>4, <3>1 DEF LockFree, WalletApart
        <2>2. UserRead(w) /\ BalanceRead(w)
            BY <1>4 DEF UserRead, BalanceRead, ScanKinds, OrderKinds
        <2> QED BY <1>1, <1>4, <2>1, <2>2, WorkStartsBalance
    <1>5. ASSUME NEW o \in OrderIds,
                 \/ \E b \in Batteries : StartDetect(r, b, o)
                 \/ StartManual(r, o) \/ StartLost(r, o)
                 \/ StartDamage(r, o) \/ StartFail(r, o)
          PROVE  BalancesInv'
        <2>1. PICK kind \in {"detect", "manual", "lost", "damage", "fail"} :
                 Start(r, Read(kind, o, "none"))
            BY <1>5 DEF StartDetect, StartManual, StartLost, StartDamage, StartFail
        <2> QED BY <1>3, <2>1, OrderKindNames
    <1>6. ASSUME NEW o \in OrderIds, NEW report \in Reports,
                 NEW aged \in BOOLEAN, NEW expired \in BOOLEAN,
                 StartDecide(r, o, report, aged, expired)
          PROVE  BalancesInv'
        <2>1. \/ work' = work
              \/ \E action : Start(r, Read("decide", o, action))
            BY <1>6 DEF StartDecide, Alone
        <2>2. CASE work' = work
            <3>1. WorkEnds
                BY <2>2 DEF WorkEnds
            <3> QED BY <1>1, <3>1, BalancesAfter
        <2> QED BY <1>3, <2>1, <2>2, OrderKindNames
    <1>7. ASSUME NEW o \in OrderIds, NEW action, StartCompensate(r, o, action)
          PROVE  BalancesInv'
        BY <1>3, <1>7, OrderKindNames DEF StartCompensate
    <1>8. ASSUME NEW u \in Users, NEW c \in Cabinets, StartRent(r, u, c)
          PROVE  BalancesInv'
        <2> DEFINE w == ReadUser(u, c)
        <2>1. w.kind \in ScanKinds /\ w.user = u /\ w.bal = balance[u]
            BY DEF ReadUser, ScanKinds
        <2>2. Start(r, w) /\ LockFree("user_rent", u)
            BY <1>8 DEF StartRent
        <2> HIDE DEF w
        <2> QED BY <1>4, <2>1, <2>2
    <1>9. ASSUME NEW u \in Users, NEW s \in Slots, NEW reason,
                 StartAbnormal(r, u, s, reason)
          PROVE  BalancesInv'
        <2> DEFINE w == ReadFailed(u, s, reason)
        <2>1. w.kind \in ScanKinds /\ w.user = u /\ w.bal = balance[u]
            BY DEF ReadFailed, ScanKinds
        <2>2. Start(r, w) /\ LockFree("user_rent", u)
            BY <1>9 DEF StartAbnormal
        <2> HIDE DEF w
        <2> QED BY <1>4, <2>1, <2>2
    <1>10. ASSUME NEW s \in Slots, StartInventory(r, s)
           PROVE  BalancesInv'
        <2> DEFINE w == ReadSlot(s)
        <2>1. w.kind = "inventory" /\ Start(r, w)
            BY <1>10 DEF ReadSlot, StartInventory
        <2> HIDE DEF w
        <2>2. w.kind \notin ScanKinds /\ w.kind \notin OrderKinds
            BY <2>1 DEF ScanKinds, OrderKinds
        <2>3. UserRead(w) /\ BalanceRead(w)
            BY <2>2 DEF UserRead, BalanceRead
        <2> QED BY <1>1, <2>1, <2>2, <2>3, WorkStartsBalance
    <1> QED BY <1>2, <1>5, <1>6, <1>7, <1>8, <1>9, <1>10 DEF Begin

\* A scan that commits opens an order with what its user still has.
LEMMA ScanOpens ==
    ASSUME RacesInv, BalancesInv, NEW r \in Requests, WorkEnds,
           work[r].kind \in ScanKinds, work'[r] = NotWorking,
           NEW b \in Batteries, NEW s \in Slots,
           NEW status \in OrderStatus, NEW reason \in AbnormalReason,
           work[r].bal >= DepositFor(work[r].user), UNCHANGED credited,
           InsertOrder(NewOrder(work[r].user, b, s, status, reason), work[r].bal)
    PROVE  WalletMove /\ BalancesInv'
    <1> DEFINE u == work[r].user
               row == NewOrder(u, b, s, status, reason)
    <1>0. TypeOK /\ StoreTypeOK /\ u \in Users
        BY AtWork DEF RacesInv, TypeOK, ScanKinds
    <1>1. work[r].bal = balance[u]
        BY DEF BalancesInv, BalanceRead
    <1> HIDE DEF u
    <1>2. CanAfford(u) /\ InsertOrder(row, balance[u])
        BY <1>1 DEF CanAfford, u
    <1>3. MoneyStep
        BY <1>0, <1>2, InsertOpens
    <1>4. \A o \in OrderIds : orders'[o] = orders[o]
        BY <1>0, <1>2, InsertFacts
    <1>5. balance' = IF row.depositAmt > 0
                     THEN [balance EXCEPT ![u] = balance[u] - row.depositAmt]
                     ELSE balance
        <2>1. row.user = u
            BY DEF NewOrder
        <2> HIDE DEF row
        <2> QED BY <1>2, <2>1 DEF InsertOrder
    <1> HIDE DEF row
    <1>6. ASSUME NEW q \in Requests, work[q].kind \in ScanKinds, work'[q] = work[q]
          PROVE  balance'[work[q].user] = balance[work[q].user]
        <2>1. q # r
            BY <1>6 DEF ScanKinds, NotWorking
        <2>2. work[q].user # u
            BY <1>6, <2>1 DEF BalancesInv, OneScan, u
        <2>3. balance \in [Users -> Nat] /\ work[q].user \in Users
            BY <1>0, <1>6, AtWork, Kept DEF ScanKinds
        <2> QED BY <1>5, <2>2, <2>3
    <1> QED BY <1>0, <1>3, <1>4, <1>6, MoneyMoves, BalancesAfter

\* Settlements pay while no scan has read a balance; damage reports and failed
\* unlockings do not pay.
LEMMA EndBalances ==
    ASSUME RacesInv, BalancesInv, WalletApart, NEW r \in Requests, End(r)
    PROVE  WalletMove /\ BalancesInv'
    <1> DEFINE w == work[r]
               o == w.order
    <1>0. TypeOK /\ work = [q \in Requests |-> work[q]]
        BY DEF RacesInv
    <1>1. work' = [work EXCEPT ![r] = NotWorking]
        BY DEF End, FinishDetect, FinishManual, FinishLost, FinishDamage,
               FinishDecision, FinishFail, FinishRent, FinishAbnormal,
               FinishInventory, GiveUp, Finish
    <1>2. WorkEnds /\ work'[r] = NotWorking
        BY <1>0, <1>1 DEF WorkEnds
    <1>3. w.kind \in OrderKinds =>
             /\ o \in OrderIds /\ w.got \in OrderRow /\ orders[o] \in OrderRow
             /\ w.got.user = orders[o].user
        BY <1>0, AtWork, Kept DEF BalancesInv, UserRead
    <1>4. ASSUME w.kind \in Payers, \A p \in OrderIds : orders'[p].user = orders[p].user
          PROVE  BalancesInv'
        BY <1>2, <1>4, NoScanNearPayers, BalancesAfter
    <1>5. ASSUME balance' = balance,
                 \A p \in OrderIds : orders'[p].user = orders[p].user
          PROVE  BalancesInv'
        BY <1>2, <1>5, BalancesAfter
    <1> HIDE DEF w, o
    <1>6. ASSUME NEW s \in Slots, NEW fee \in Fees \cup {0},
                 \/ \E suspect \in BOOLEAN : FinishDetect(r, s, fee, suspect)
                 \/ FinishManual(r, s, fee)
          PROVE  WalletMove /\ BalancesInv'
        <2>1. PICK status \in {"completed", "disputed"}, x \in {0, w.got.exceptionFee} :
                 /\ w.kind \in {"detect", "manual"} /\ fee \in FeesOf(w.got)
                 /\ ReturnTx(o, w.got, fee, status, x) /\ credited' = credited
            BY <1>6 DEF FinishDetect, FinishManual, Finish, Rest, w, o
        <2>2. o \in OrderIds /\ w.got \in OrderRow /\ w.got.user = orders[o].user
            BY <1>3, <2>1, OrderKindNames
        <2>3. /\ fee \in Nat /\ status \in OrderStatus /\ x \in Nat
            BY <2>1, <2>2, FeesAreNat DEF OrderStatus, OrderRow
        <2> DEFINE row == ReturnedRow(w.got, fee, status, x)
        <2>4. row \in OrderRow /\ row.user = w.got.user
            BY <2>2, <2>3, ReturnedRowFacts
        <2>5. /\ orders' = [orders EXCEPT ![o] = row] /\ lastId' = lastId
              /\ CloseDeposit(o, w.got, fee)
            BY <2>1 DEF ReturnTx
        <2> HIDE DEF row
        <2>6. WalletMove /\ \A p \in OrderIds : orders'[p].user = orders[p].user
            BY <1>0, <2>1, <2>2, <2>3, <2>4, <2>5, StaleCloseMoves
        <2> QED BY <1>4, <2>1, <2>6 DEF Payers
    <1>7. ASSUME NEW fee \in Fees \cup {0}, NEW lostFee \in LostFees,
                 FinishLost(r, fee, lostFee)
          PROVE  WalletMove /\ BalancesInv'
        <2>1. /\ w.kind = "lost" /\ fee \in FeesOf(w.got)
              /\ LostTx(o, w.got, fee, lostFee) /\ credited' = credited
            BY <1>7 DEF FinishLost, Finish, Rest, w, o
        <2>2. o \in OrderIds /\ w.got \in OrderRow /\ w.got.user = orders[o].user
            BY <1>3, <2>1, OrderKindNames
        <2>3. fee \in Nat /\ lostFee \in Nat
            BY <2>1, FeesAreNat, StoreAssumption
        <2> DEFINE row == LostRow(w.got, fee, lostFee)
                   total == MaxOf(fee, lostFee)
        <2>4. row \in OrderRow /\ row.user = w.got.user
            BY <2>2, <2>3, LostRowFacts
        <2>5. /\ orders' = [orders EXCEPT ![o] = row] /\ lastId' = lastId
              /\ CloseDeposit(o, w.got, total) /\ total \in Nat
            BY <2>1, <2>3 DEF LostTx, MaxOf
        <2> HIDE DEF row, total
        <2>6. WalletMove /\ \A p \in OrderIds : orders'[p].user = orders[p].user
            BY <1>0, <2>1, <2>2, <2>4, <2>5, StaleCloseMoves
        <2> QED BY <1>4, <2>1, <2>6 DEF Payers
    <1>8. ASSUME NEW damageFee \in DamageFees, FinishDamage(r, damageFee)
          PROVE  WalletMove /\ BalancesInv'
        <2>1. w.kind = "damage" /\ DamageTx(o, w.got, damageFee) /\ credited' = credited
            BY <1>8 DEF FinishDamage, Finish, Rest, w, o
        <2>2. o \in OrderIds /\ w.got \in OrderRow /\ w.got.user = orders[o].user
            BY <1>3, <2>1, OrderKindNames
        <2>3. damageFee \in Nat
            BY StoreAssumption
        <2> DEFINE row == DamagedRow(w.got, damageFee)
        <2>4. row \in OrderRow /\ row.user = w.got.user
            BY <2>2, <2>3, DamagedRowFacts
        <2>5. /\ orders' = [orders EXCEPT ![o] = row]
              /\ UNCHANGED <<balance, lastId, ledger>>
            BY <2>1 DEF DamageTx
        <2> HIDE DEF row
        <2>6. WalletMove /\ \A p \in OrderIds : orders'[p].user = orders[p].user
            BY <1>0, <2>1, <2>2, <2>4, <2>5, RowMoves
        <2> QED BY <1>5, <2>5, <2>6
    <1>9. ASSUME NEW kind \in {"decide", "compensate"}, FinishDecision(r, kind)
          PROVE  WalletMove /\ BalancesInv'
        <2> DEFINE aim == Decision(w)
                   row == DecidedRow(orders[o], aim)
        <2>1. /\ w.kind = kind /\ orders' = [orders EXCEPT ![o] = row]
              /\ UNCHANGED <<lastId, credited>>
              /\ \/ CloseDeposit(o, w.got, 0)
                 \/ UNCHANGED <<balance, ledger>>
            BY <1>0, <1>9, Kept DEF FinishDecision, Finish, Rest, w, o
        <2>2. /\ o \in OrderIds /\ w.got \in OrderRow /\ orders[o] \in OrderRow
              /\ w.got.user = orders[o].user
            BY <1>3, <2>1, OrderKindNames
        <2>3. aim \in OrderRow
            BY <1>0, <2>2, DecisionType
        <2> HIDE DEF aim
        <2>4. row \in OrderRow /\ row.user = orders[o].user
            BY <2>2, <2>3, DecidedType
        <2> HIDE DEF row
        <2>5. 0 \in Nat
            OBVIOUS
        <2>6. WalletMove /\ \A p \in OrderIds : orders'[p].user = orders[p].user
            BY <1>0, <2>1, <2>2, <2>4, <2>5, StaleCloseMoves, RowMoves
        <2> QED BY <1>4, <2>1, <2>6 DEF Payers
    <1>10. CASE FinishFail(r)
        <2> DEFINE row == AbnormalRow(orders[o])
        <2>1. /\ w.kind = "fail" /\ orders' = [orders EXCEPT ![o] = row]
              /\ UNCHANGED <<balance, credited, lastId, ledger>>
            BY <1>0, <1>10, Kept DEF FinishFail, Finish, Rest, w, o
        <2>2. o \in OrderIds /\ orders[o] \in OrderRow
            BY <1>3, <2>1, OrderKindNames
        <2>3. row \in OrderRow /\ row.user = orders[o].user
            BY <2>2, AbnormalRowFacts
        <2> HIDE DEF row
        <2>4. WalletMove /\ \A p \in OrderIds : orders'[p].user = orders[p].user
            BY <1>0, <2>1, <2>2, <2>3, RowMoves
        <2> QED BY <1>5, <2>1, <2>4
    <1>11. ASSUME NEW s \in Slots, FinishRent(r, s)
           PROVE  WalletMove /\ BalancesInv'
        <2>1. slots[s].battery \in Batteries
            BY <1>0, <1>11, Kept DEF FinishRent, ScanOutcome, SlotRow
        <2>2. /\ work[r].kind \in ScanKinds
              /\ work[r].bal >= DepositFor(work[r].user) /\ credited' = credited
              /\ InsertOrder(NewOrder(work[r].user, slots[s].battery, s,
                                      "renting", "none"), work[r].bal)
              /\ "renting" \in OrderStatus /\ "none" \in AbnormalReason
            BY <1>11 DEF FinishRent, Finish, ScanKinds, OrderStatus, AbnormalReason
        <2> QED BY <1>2, <2>1, <2>2, ScanOpens
    <1>12. CASE FinishAbnormal(r)
        <2>1. /\ work[r].kind = "abnormal"
              /\ slots[work[r].slot].battery # NoBattery
              /\ work[r].bal >= DepositFor(work[r].user) /\ credited' = credited
              /\ InsertOrder(NewOrder(work[r].user, slots[work[r].slot].battery,
                                      work[r].slot, "abnormal", work[r].reason),
                             work[r].bal)
              /\ "abnormal" \in OrderStatus
            BY <1>12 DEF FinishAbnormal, Finish, OrderStatus
        <2>2. work[r].slot \in Slots /\ work[r].reason \in AbnormalReason
            BY <2>1, AtWork
        <2>3. slots[work[r].slot].battery \in Batteries
            BY <1>0, <2>1, <2>2, Kept DEF SlotRow
        <2> QED BY <1>2, <2>1, <2>2, <2>3, ScanOpens DEF ScanKinds
    <1>13. CASE FinishInventory(r) \/ GiveUp(r)
        <2>1. UNCHANGED <<balance, credited, lastId, orders, ledger>>
            BY <1>13 DEF FinishInventory, GiveUp, Rest, vars, storeVars
        <2>2. WalletMove
            BY <2>1 DEF Unmoved, WalletMove
        <2> QED BY <1>5, <2>1, <2>2
    <1> QED BY <1>6, <1>7, <1>8, <1>9, <1>10, <1>11, <1>12, <1>13 DEF End

LEMMA MovesKeepUsers ==
    ASSUME TypeOK, WalletMove
    PROVE  \A o \in OrderIds : orders'[o].user = orders[o].user
    BY DEF WalletMove, Unmoved, Paid, GaveBack, Opened

\* What is one step moves money only while no scan has read a balance.
LEMMA AloneBalances ==
    ASSUME RacesInv, BalancesInv, WalletApart, work' = work,
           \/ /\ MayOverlap("credit")
              /\ \E u \in Users, amount \in TopUps : TopUp(u, amount)
           \/ MayOverlap("scan") /\ Scan
           \/ MayOverlap("report") /\ Reported
           \/ MayOverlap("dispute") /\ Disputed
    PROVE  WalletMove /\ BalancesInv'
    <1>0. TypeOK /\ WorkEnds
        BY DEF RacesInv, WorkEnds
    <1>1. ASSUME MoneyStep, NEW kind \in Payers, MayOverlap(kind)
          PROVE  WalletMove /\ BalancesInv'
        <2>1. WalletMove
            BY <1>0, <1>1, MoneyMoves
        <2> QED BY <1>0, <1>1, <2>1, MovesKeepUsers, NoScanNearPayers, BalancesAfter
    <1>2. ASSUME NEW u \in Users, NEW amount \in TopUps, TopUp(u, amount)
          PROVE  MoneyStep
        <2>1. amount \in Nat
            BY LifecycleAssumption
        <2> QED BY <1>2, <2>1 DEF TopUp, Paid, MoneyStep
    <1>3. ASSUME Reported
          PROVE  WalletMove /\ BalancesInv'
        <2>1. UNCHANGED <<balance, credited, lastId, orders, ledger>>
            BY <1>3 DEF Reported, LockReportOpened, CabinetRecovered
        <2>2. WalletMove
            BY <2>1 DEF Unmoved, WalletMove
        <2> QED BY <1>0, <2>1, <2>2, BalancesAfter
    <1>4. ASSUME NEW o \in OrderIds, CreateDispute(o)
          PROVE  MoneyStep
        BY <1>0, <1>4, DisputeMoney
    <1>5. ASSUME NEW d \in 1..filed, NEW refund \in Refunds,
                 NEW adjust \in Fees \cup {0}, HandleDispute(d, adjust, refund)
          PROVE  MoneyStep
        BY <1>0, <1>5, DisputeMoney
    <1>6. Scan => MoneyStep
        BY <1>0, ScanMoney
    <1>7. /\ "credit" \in Payers /\ "scan" \in Payers /\ "dispute" \in Payers
        BY DEF Payers
    <1> QED BY <1>1, <1>2, <1>3, <1>4, <1>5, <1>6, <1>7 DEF Disputed

LEMMA BalancesStep ==
    ASSUME WalletApart
    PROVE  RacesInv /\ BalancesInv /\ [RacesNext]_raceVars
              => WalletMove /\ BalancesInv'
    <1> SUFFICES ASSUME RacesInv, BalancesInv, [RacesNext]_raceVars
                 PROVE  WalletMove /\ BalancesInv'
        OBVIOUS
    <1>1. ASSUME NEW r \in Requests, Begin(r) \/ End(r)
          PROVE  WalletMove /\ BalancesInv'
        BY <1>1, BeginBalances, EndBalances
    <1>2. CASE UNCHANGED raceVars
        <2>1. /\ UNCHANGED <<balance, credited, lastId, orders, ledger>>
              /\ WorkEnds
            BY <1>2 DEF raceVars, vars, storeVars, WorkEnds
        <2>2. WalletMove
            BY <2>1 DEF Unmoved, WalletMove
        <2> QED BY <2>1, <2>2, BalancesAfter
    <1> QED BY <1>1, <1>2, AloneBalances DEF RacesNext, Alone

LEMMA BalancesStart == RacesInit => BalancesInv
    <1> SUFFICES ASSUME RacesInit PROVE BalancesInv
        OBVIOUS
    <1>1. \A r \in Requests : work[r].kind = "idle"
        BY DEF RacesInit, NotWorking
    <1> QED BY <1>1 DEF BalancesInv, UserRead, BalanceRead, OrderKinds, Handlers,
                        ScanKinds, Together, OneScan

\* Scans write back a balance they read before their transaction.  The wallets
\* reconcile nevertheless, for any number of overlapping requests, as long as
\* two scans of one user are kept apart, and a scan from what else writes a
\* balance; settlements of whatever they have read may overlap each other.
THEOREM OverlappingWalletsReconcile ==
    ASSUME WalletApart
    PROVE  RacesSpec => []WalletReconciles
    <1>1. RacesInit => RacesInv /\ BalancesInv /\ WalletReconciles
        <2>1. RacesInit => Init
            BY DEF RacesInit
        <2> QED BY <2>1, RacesStart, BalancesStart, InitReconciles
    <1>2. RacesInv /\ BalancesInv /\ WalletReconciles /\ [RacesNext]_raceVars
             => RacesInv' /\ BalancesInv' /\ WalletReconciles'
        <2> SUFFICES ASSUME RacesInv, BalancesInv, WalletReconciles,
                            [RacesNext]_raceVars
                     PROVE  RacesInv' /\ BalancesInv' /\ WalletReconciles'
            OBVIOUS
        <2>1. RacesInv' /\ WalletMove /\ BalancesInv'
            BY RacesStep, BalancesStep
        <2>2. TypeOK /\ TypeOK'
            BY <2>1 DEF RacesInv
        <2> QED BY <2>1, <2>2, WalletStep
    <1> QED BY <1>1, <1>2, PTL DEF RacesSpec

-----------------------------------------------------------------------------
(* The deposit account under overlap *)

\* A settlement that knows what became of the deposit closes it as if it had
\* read the row just now...
LEMMA KnownCloseCloses ==
    ASSUME TypeOK, Inv, NEW o \in OrderIds, NEW got \in OrderRow, NEW fee \in Nat,
           NEW row \in OrderRow, CloseDeposit(o, got, fee),
           orders' = [orders EXCEPT ![o] = row],
           got.user = orders[o].user, got.depositStatus = orders[o].depositStatus,
           Settled(got, ledger[o], o \in returned),
           row.user = got.user, row.depositAmt = got.depositAmt,
           HoldsDeposit(got) => row.depositStatus # 1,
           ~HoldsDeposit(got) => row.depositStatus = 1 <=> got.depositStatus = 1,
           UNCHANGED <<credited, lastId>>
    PROVE  MoneyStep
    <1>1. Settled(orders[o], ledger[o], o \in returned)
        BY DEF Inv
    <1>2. got.depositAmt = orders[o].depositAmt
        BY <1>1 DEF Settled
    <1>3. HoldsDeposit(got) <=> HoldsDeposit(orders[o])
        BY <1>2 DEF HoldsDeposit
    <1>4. CASE HoldsDeposit(got)
        <2>1. CloseDeposit(o, orders[o], fee)
            BY <1>2, <1>3 DEF CloseDeposit, Deducted, Released
        <2> QED BY <1>2, <1>4, <2>1, CloseCloses
    <1>5. CASE ~HoldsDeposit(got)
        BY <1>2, <1>5, RewriteIsIdle DEF CloseDeposit
    <1> QED BY <1>4, <1>5

\* ... and whatever writes its row back writes back its deposit.
LEMMA KnownRowIsIdle ==
    ASSUME TypeOK, Inv, NEW o \in OrderIds, NEW got \in OrderRow,
           NEW row \in OrderRow, orders' = [orders EXCEPT ![o] = row],
           got.user = orders[o].user, got.depositStatus = orders[o].depositStatus,
           Settled(got, ledger[o], o \in returned),
           row.user = got.user, row.depositAmt = got.depositAmt,
           row.depositStatus = got.depositStatus,
           UNCHANGED <<balance, credited, lastId, ledger>>
    PROVE  MoneyStep
    <1>1. Settled(orders[o], ledger[o], o \in returned)
        BY DEF Inv
    <1>2. got.depositAmt = orders[o].depositAmt
        BY <1>1 DEF Settled
    <1> QED BY <1>2, RewriteIsIdle

LEMMA BeginMoney ==
    ASSUME NEW r \in Requests, Begin(r)
    PROVE  MoneyStep
    <1>1. UNCHANGED <<balance, credited, lastId, orders, ledger>>
        BY DEF Begin, StartDetect, StartManual, StartLost, StartDamage, StartFail,
               StartDecide, StartCompensate, StartRent, StartAbnormal,
               StartInventory, vars, storeVars
    <1> QED BY <1>1, UntouchedIsIdle

LEMMA DecisionFacts ==
    ASSUME NEW w, w.got \in OrderRow, NEW cur \in OrderRow, w.got.user = cur.user
    PROVE  LET r == DecidedRow(cur, Decision(w))
           IN  /\ r \in OrderRow /\ r.user = cur.user
               /\ r.depositAmt = cur.depositAmt
               /\ r.depositStatus = IF w.action = "refund_deposit" /\ HoldsDeposit(w.got)
                                    THEN 2 ELSE w.got.depositStatus
    <1> DEFINE new == Decision(w)
    <1>1. /\ new \in OrderRow
          /\ new.depositStatus = IF w.action = "refund_deposit" /\ HoldsDeposit(w.got)
                                 THEN 2 ELSE w.got.depositStatus
        BY RefundedRowFacts, RecreatedRowFacts, DecidedRowFacts
           DEF Decision, TriedRow
    <1> HIDE DEF new
    <1>2. LET r == DecidedRow(cur, new)
          IN  /\ r \in OrderRow /\ r.user = cur.user
              /\ r.depositAmt = cur.depositAmt
              /\ r.depositStatus = new.depositStatus
        BY <1>1, DecidedType, DecidedDeposit
    <1> QED BY <1>1, <1>2 DEF new

\* Every commit opens, closes or leaves alone a deposit, as it is.
LEMMA EndMoney ==
    ASSUME RacesInv, DepositsInv, BalancesInv, NEW r \in Requests, End(r)
    PROVE  MoneyStep
    <1> DEFINE w == work[r]
               o == w.order
    <1>0. TypeOK /\ Inv
        BY DEF RacesInv, DepositsInv
    <1>1. w.kind \in OrderKinds =>
             /\ o \in OrderIds /\ w.got \in OrderRow /\ orders[o] \in OrderRow
             /\ w.got.user = orders[o].user
        BY <1>0, AtWork, Kept DEF BalancesInv, UserRead
    <1>2. \/ w.kind \in {"detect", "manual"} /\ o \notin returned
          \/ w.kind \in {"lost", "damage", "decide", "compensate"}
          => /\ w.got.depositStatus = orders[o].depositStatus
             /\ Settled(w.got, ledger[o], o \in returned)
        BY DEF DepositsInv, MayCommit, DepositRead
    <1> HIDE DEF w, o
    <1>3. ASSUME NEW s \in Slots, NEW fee \in Fees \cup {0},
                 \/ \E suspect \in BOOLEAN : FinishDetect(r, s, fee, suspect)
                 \/ FinishManual(r, s, fee)
          PROVE  MoneyStep
        <2>1. PICK status \in {"completed", "disputed"}, x \in {0, w.got.exceptionFee} :
                 /\ w.kind \in {"detect", "manual"} /\ fee \in FeesOf(w.got)
                 /\ ReturnTx(o, w.got, fee, status, x) /\ credited' = credited
            BY <1>3 DEF FinishDetect, FinishManual, Finish, Rest, w, o
        <2>2. o \in OrderIds /\ w.got \in OrderRow /\ w.got.user = orders[o].user
            BY <1>1, <2>1, OrderKindNames
        <2>3. /\ fee \in Nat /\ status \in OrderStatus /\ x \in Nat
            BY <2>1, <2>2, FeesAreNat DEF OrderStatus, OrderRow
        <2> DEFINE row == ReturnedRow(w.got, fee, status, x)
        <2>4. /\ row \in OrderRow /\ row.user = w.got.user
              /\ row.depositAmt = w.got.depositAmt /\ row.depositStatus = 2
            BY <2>2, <2>3, ReturnedRowFacts
        <2>5. /\ orders' = [orders EXCEPT ![o] = row] /\ lastId' = lastId
              /\ CloseDeposit(o, w.got, fee) /\ o \notin returned
            BY <2>1 DEF ReturnTx
        <2> HIDE DEF row
        <2>6. /\ w.got.depositStatus = orders[o].depositStatus
              /\ Settled(w.got, ledger[o], o \in returned)
            BY <1>2, <2>1, <2>5
        <2>7. /\ HoldsDeposit(w.got) => row.depositStatus # 1
              /\ ~HoldsDeposit(w.got) =>
                    (row.depositStatus = 1 <=> w.got.depositStatus = 1)
            BY <2>4, <2>6 DEF HoldsDeposit, Settled
        <2>8. UNCHANGED <<credited, lastId>>
            BY <2>1, <2>5
        <2> QED BY <1>0, <2>2, <2>3, <2>4, <2>5, <2>6, <2>7, <2>8, KnownCloseCloses
    <1>4. ASSUME NEW fee \in Fees \cup {0}, NEW lostFee \in LostFees,
                 FinishLost(r, fee, lostFee)
          PROVE  MoneyStep
        <2>1. /\ w.kind = "lost" /\ fee \in FeesOf(w.got)
              /\ LostTx(o, w.got, fee, lostFee) /\ credited' = credited
            BY <1>4 DEF FinishLost, Finish, Rest, w, o
        <2>2. o \in OrderIds /\ w.got \in OrderRow /\ w.got.user = orders[o].user
            BY <1>1, <2>1, OrderKindNames
        <2>3. fee \in Nat /\ lostFee \in Nat
            BY <2>1, FeesAreNat, StoreAssumption
        <2> DEFINE row == LostRow(w.got, fee, lostFee)
                   total == MaxOf(fee, lostFee)
        <2>4. /\ row \in OrderRow /\ row.user = w.got.user
              /\ row.depositAmt = w.got.depositAmt /\ row.depositStatus = 2
            BY <2>2, <2>3, LostRowFacts
        <2>5. /\ orders' = [orders EXCEPT ![o] = row] /\ lastId' = lastId
              /\ CloseDeposit(o, w.got, total) /\ total \in Nat
            BY <2>1, <2>3 DEF LostTx, MaxOf
        <2> HIDE DEF row, total
        <2>6. /\ w.got.depositStatus = orders[o].depositStatus
              /\ Settled(w.got, ledger[o], o \in returned)
            BY <1>2, <2>1
        <2>7. /\ HoldsDeposit(w.got) => row.depositStatus # 1
              /\ ~HoldsDeposit(w.got) =>
                    (row.depositStatus = 1 <=> w.got.depositStatus = 1)
            BY <2>4, <2>6 DEF HoldsDeposit, Settled
        <2>8. UNCHANGED <<credited, lastId>>
            BY <2>1, <2>5
        <2> QED BY <1>0, <2>2, <2>4, <2>5, <2>6, <2>7, <2>8, KnownCloseCloses
    <1>5. ASSUME NEW damageFee \in DamageFees, FinishDamage(r, damageFee)
          PROVE  MoneyStep
        <2>1. w.kind = "damage" /\ DamageTx(o, w.got, damageFee) /\ credited' = credited
            BY <1>5 DEF FinishDamage, Finish, Rest, w, o
        <2>2. o \in OrderIds /\ w.got \in OrderRow /\ w.got.user = orders[o].user
            BY <1>1, <2>1, OrderKindNames
        <2>3. damageFee \in Nat
            BY StoreAssumption
        <2> DEFINE row == DamagedRow(w.got, damageFee)
        <2>4. /\ row \in OrderRow /\ row.user = w.got.user
              /\ row.depositAmt = w.got.depositAmt
              /\ row.depositStatus = w.got.depositStatus
            BY <2>2, <2>3, DamagedRowFacts
        <2>5. /\ orders' = [orders EXCEPT ![o] = row]
              /\ UNCHANGED <<balance, credited, lastId, ledger>>
            BY <2>1 DEF DamageTx
        <2> HIDE DEF row
        <2> QED BY <1>0, <1>2, <2>1, <2>2, <2>4, <2>5, KnownRowIsIdle
    <1>6. ASSUME NEW kind \in {"decide", "compensate"}, FinishDecision(r, kind)
          PROVE  MoneyStep
        <2> DEFINE row == DecidedRow(orders[o], Decision(w))
        <2>1. /\ w.kind = kind /\ orders' = [orders EXCEPT ![o] = row]
              /\ UNCHANGED <<lastId, credited>>
              /\ IF w.action = "refund_deposit" THEN CloseDeposit(o, w.got, 0)
                 ELSE UNCHANGED <<balance, ledger>>
            BY <1>0, <1>6, Kept DEF FinishDecision, Finish, Rest, w, o
        <2>2. /\ o \in OrderIds /\ w.got \in OrderRow /\ orders[o] \in OrderRow
              /\ w.got.user = orders[o].user
            BY <1>1, <2>1, OrderKindNames
        <2>3. /\ row \in OrderRow /\ row.user = orders[o].user
              /\ row.depositAmt = orders[o].depositAmt
              /\ row.depositStatus = IF w.action = "refund_deposit" /\ HoldsDeposit(w.got)
                                     THEN 2 ELSE w.got.depositStatus
            BY <2>2, DecisionFacts
        <2> HIDE DEF row
        <2>4. /\ w.got.depositStatus = orders[o].depositStatus
              /\ Settled(w.got, ledger[o], o \in returned)
            BY <1>2, <2>1
        <2>5. w.got.depositAmt = orders[o].depositAmt
            BY <1>0, <2>2, <2>4 DEF Settled, Inv
        <2>6. 0 \in Nat
            OBVIOUS
        <2>7. CASE w.action = "refund_deposit"
            <3>1. /\ HoldsDeposit(w.got) => row.depositStatus # 1
                  /\ ~HoldsDeposit(w.got) =>
                        (row.depositStatus = 1 <=> w.got.depositStatus = 1)
                  /\ row.user = w.got.user /\ row.depositAmt = w.got.depositAmt
                BY <2>2, <2>3, <2>5, <2>7
            <3>2. CloseDeposit(o, w.got, 0) /\ UNCHANGED <<credited, lastId>>
                BY <2>1, <2>7
            <3> QED BY <1>0, <2>1, <2>2, <2>3, <2>4, <2>6, <3>1, <3>2,
                       KnownCloseCloses
        <2>8. CASE w.action # "refund_deposit"
            BY <1>0, <2>1, <2>2, <2>3, <2>4, <2>5, <2>8, KnownRowIsIdle
        <2> QED BY <2>7, <2>8
    <1>7. CASE FinishFail(r)
        <2> DEFINE row == AbnormalRow(orders[o])
        <2>1. /\ w.kind = "fail" /\ orders' = [orders EXCEPT ![o] = row]
              /\ UNCHANGED <<balance, credited, lastId, ledger>>
            BY <1>0, <1>7, Kept DEF FinishFail, Finish, Rest, w, o
        <2>2. o \in OrderIds /\ orders[o] \in OrderRow
            BY <1>1, <2>1, OrderKindNames
        <2>3. /\ row \in OrderRow /\ row.user = orders[o].user
              /\ row.depositAmt = orders[o].depositAmt
              /\ row.depositStatus = orders[o].depositStatus
            BY <2>2, AbnormalRowFacts
        <2> HIDE DEF row
        <2> QED BY <1>0, <2>1, <2>2, <2>3, RewriteIsIdle
    <1>8. ASSUME w.kind \in ScanKinds, NEW b \in Batteries, NEW s \in Slots,
                 NEW status \in OrderStatus, NEW reason \in AbnormalReason,
                 w.bal >= DepositFor(w.user), credited' = credited,
                 InsertOrder(NewOrder(w.user, b, s, status, reason), w.bal)
          PROVE  MoneyStep
        <2>1. w.user \in Users
            BY <1>8, AtWork DEF ScanKinds, w
        <2>2. w.bal = balance[w.user]
            BY <1>8 DEF BalancesInv, BalanceRead, w
        <2>3. /\ CanAfford(w.user)
              /\ InsertOrder(NewOrder(w.user, b, s, status, reason), balance[w.user])
            BY <1>8, <2>2 DEF CanAfford
        <2> QED BY <1>0, <1>8, <2>1, <2>3, InsertOpens
    <1>9. ASSUME NEW s \in Slots, FinishRent(r, s)
          PROVE  MoneyStep
        <2>1. slots[s].battery \in Batteries
            BY <1>0, <1>9, Kept DEF FinishRent, ScanOutcome, SlotRow
        <2>2. /\ w.kind \in ScanKinds /\ w.bal >= DepositFor(w.user)
              /\ credited' = credited
              /\ InsertOrder(NewOrder(w.user, slots[s].battery, s,
                                      "renting", "none"), w.bal)
              /\ "renting" \in OrderStatus /\ "none" \in AbnormalReason
            BY <1>9 DEF FinishRent, Finish, ScanKinds, OrderStatus, AbnormalReason, w
        <2> QED BY <1>8, <2>1, <2>2
    <1>10. CASE FinishAbnormal(r)
        <2>1. /\ w.kind = "abnormal" /\ slots[w.slot].battery # NoBattery
              /\ w.bal >= DepositFor(w.user) /\ credited' = credited
              /\ InsertOrder(NewOrder(w.user, slots[w.slot].battery, w.slot,
                                      "abnormal", w.reason), w.bal)
              /\ "abnormal" \in OrderStatus
            BY <1>10 DEF FinishAbnormal, Finish, OrderStatus, w
        <2>2. w.slot \in Slots /\ w.reason \in AbnormalReason
            BY <2>1, AtWork DEF w
        <2>3. slots[w.slot].battery \in Batteries
            BY <1>0, <2>1, <2>2, Kept DEF SlotRow
        <2> QED BY <1>8, <2>1, <2>2, <2>3 DEF ScanKinds
    <1>11. CASE FinishInventory(r) \/ GiveUp(r)
        BY <1>11, UntouchedIsIdle DEF FinishInventory, GiveUp, Rest, vars, storeVars
    <1> QED BY <1>3, <1>4, <1>5, <1>6, <1>7, <1>9, <1>10, <1>11 DEF End

LEMMA RacesMoney ==
    ASSUME RacesInv, DepositsInv, BalancesInv, [RacesNext]_raceVars
    PROVE  MoneyStep
    <1>0. TypeOK
        BY DEF RacesInv
    <1>1. ASSUME NEW u \in Users, NEW amount \in TopUps, TopUp(u, amount)
          PROVE  MoneyStep
        <2>1. amount \in Nat
            BY LifecycleAssumption
        <2> QED BY <1>1, <2>1 DEF TopUp, Paid, MoneyStep
    <1>2. CASE Reported
        BY <1>2, UntouchedIsIdle DEF Reported, LockReportOpened, CabinetRecovered
    <1>3. CASE UNCHANGED raceVars
        BY <1>3, UntouchedIsIdle DEF raceVars, vars
    <1> QED BY <1>0, <1>1, <1>2, <1>3, BeginMoney, EndMoney, ScanMoney, DisputeMoney
            DEF RacesNext, Disputed

\* The deposit account does not see that handlers overlap, if no two of them
\* act on one deposit, or on one wallet, from rows that they have read.
THEOREM OverlappingHandlersImplementDeposits ==
    ASSUME DepositsApart, WalletApart
    PROVE  RacesSpec => Refinement
    <1>1. RacesInit => RacesInv /\ DepositsInv /\ BalancesInv /\ Init
        BY RacesStart, DepositsStart, BalancesStart DEF RacesInit
    <1>2. RacesInv /\ DepositsInv /\ BalancesInv /\ [RacesNext]_raceVars
             => /\ RacesInv' /\ DepositsInv' /\ BalancesInv'
                /\ [Abstract!Next]_<<balance, Deposits>>
        <2> SUFFICES ASSUME RacesInv, DepositsInv, BalancesInv,
                            [RacesNext]_raceVars
                     PROVE  /\ RacesInv' /\ DepositsInv' /\ BalancesInv'
                            /\ [Abstract!Next]_<<balance, Deposits>>
            OBVIOUS
        <2>1. RacesInv' /\ DepositsInv' /\ BalancesInv'
            BY RacesStep, DepositsStep, BalancesStep
        <2>2. TypeOK /\ TypeOK' /\ Inv
            BY <2>1 DEF RacesInv, DepositsInv
        <2> QED BY <2>1, <2>2, RacesMoney, StepAbstract
    <1> QED BY <1>1, <1>2, InitAbstract, PTL DEF RacesSpec, Refinement, Abstract!Spec
=============================================================================
