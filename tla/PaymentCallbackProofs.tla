------------------------ MODULE PaymentCallbackProofs ------------------------
(***************************************************************************)
(* Theorems about PaymentCallback, for any number of payments, messages    *)
(* and handlers.  A payment is credited exactly once as long as no handler *)
(* outlives its lock, whatever else goes wrong.                            *)
(* And when nothing goes wrong, what the gateway got an answer to has been  *)
(* credited by the time nobody works on it.                                *)
(***************************************************************************)
EXTENDS PaymentCallback, TLAPS

-----------------------------------------------------------------------------
(* Records *)

LEMMA IdleFacts ==
    /\ Idle \in Handler /\ Idle.pc = "idle" /\ Nothing \in PayRow
    /\ \A m \in Messages : /\ Entered(m) \in Handler
                           /\ Entered(m).pc = "lock" /\ Entered(m).msg = m
    BY DEF Idle, Handler, Nothing, PayRow, PayStatus, Entered

LEMMA HandlerFacts ==
    ASSUME NEW h \in Handler, NEW row \in PayRow
    PROVE  /\ Holding(h) \in Handler
           /\ Holding(h).msg = h.msg /\ Holding(h).pc = "read"
           /\ HasRead(h, row) \in Handler
           /\ HasRead(h, row).msg = h.msg /\ HasRead(h, row).pc = "settle"
           /\ HasRead(h, row).got = row
           /\ Answered(h) \in Handler
           /\ Answered(h).msg = h.msg /\ Answered(h).pc = "release"
           /\ Erred(h) \in Handler
           /\ Erred(h).msg = h.msg /\ Erred(h).pc = "release"
    BY DEF Handler, Holding, HasRead, Answered, Erred

\* What a callback writes is a payment row.
LEMMA SettledRow ==
    ASSUME NEW row \in PayRow, NEW got \in PayRow, NEW verdict
    PROVE  [status |-> IF verdict = "failed" THEN "failed"
                       ELSE IF verdict = "credit" THEN "success"
                       ELSE row.status,
            count |-> got.count + 1] \in PayRow
    BY DEF PayRow, PayStatus

-----------------------------------------------------------------------------
(* Type correctness *)

\* What the type invariant says of the parts the steps use.
LEMMA Typed ==
    ASSUME TypeOK
    PROVE  /\ pays \in [Pays -> PayRow] /\ credits \in [Pays -> Nat]
           /\ lock \in [Pays -> Requests \cup {Free, Orphan}]
           /\ reqs \in [Requests -> Handler]
           /\ \A r \in Requests : /\ reqs[r] \in Handler
                                  /\ reqs[r].got \in PayRow
           /\ \A r \in Requests : reqs[r].pc # "idle" =>
                 /\ reqs[r].msg \in Messages
                 /\ reqs[r].msg.pay \in Pays
    <1>1. \A m \in Messages : m.pay \in Pays
        BY PaymentAssumption
    <1> QED BY <1>1 DEF TypeOK, Handler

LEMMA InitType == Init => TypeOK
    <1> SUFFICES ASSUME Init PROVE TypeOK
        OBVIOUS
    <1>1. reqs \in [Requests -> Handler] /\ pays \in [Pays -> PayRow]
        BY IdleFacts DEF Init
    <1>2. \A r \in Requests : reqs[r].pc = "idle"
        BY IdleFacts DEF Init
    <1> QED BY <1>1, <1>2 DEF Init, TypeOK

\* A step that gives handler r another record of the same message.
LEMMA HandlerStep ==
    ASSUME TypeOK, NEW r \in Requests, NEW h \in Handler,
           reqs' = [reqs EXCEPT ![r] = h],
           h.pc # "idle" => h.msg \in Messages
    PROVE  /\ reqs' \in [Requests -> Handler]
           /\ \A q \in Requests : reqs'[q].pc # "idle" => reqs'[q].msg \in Messages
    BY DEF TypeOK

LEMMA KeyType ==
    ASSUME NEW m \in Messages
    PROVE  DedupKey(m) \in Pays \X Txns \X Nat
    BY PaymentAssumption DEF DedupKey

LEMMA TypeStep == TypeOK /\ [Next]_vars => TypeOK'
    <1> SUFFICES ASSUME TypeOK, [Next]_vars PROVE TypeOK'
        OBVIOUS
    <1>1. ASSUME NEW p \in Pays, Recharge(p)
          PROVE  TypeOK'
        <2>1. pays' \in [Pays -> PayRow]
            BY <1>1, Typed DEF Recharge, PayRow, PayStatus
        <2> QED BY <1>1, <2>1 DEF Recharge, TypeOK
    <1>2. ASSUME NEW r \in Requests, NEW m \in Messages, Deliver(r, m)
          PROVE  TypeOK'
        <2>1. CASE DedupKey(m) \in seen
            BY <1>2, <2>1 DEF Deliver, TypeOK
        <2>2. CASE DedupKey(m) \notin seen
            <3>1. seen' \subseteq Pays \X Txns \X Nat
                BY <1>2, <2>2, KeyType DEF Deliver, TypeOK
            <3>2. reqs' = [reqs EXCEPT ![r] = Entered(m)]
                BY <1>2, <2>2 DEF Deliver
            <3>3. /\ reqs' \in [Requests -> Handler]
                  /\ \A q \in Requests : reqs'[q].pc # "idle" =>
                                            reqs'[q].msg \in Messages
                BY <3>2, IdleFacts, HandlerStep
            <3> QED BY <1>2, <2>2, <3>1, <3>3 DEF Deliver, TypeOK
        <2> QED BY <2>1, <2>2
    <1>3. ASSUME NEW r \in Requests, Handle(r)
          PROVE  TypeOK'
        <2>0. /\ reqs[r] \in Handler /\ reqs[r].got \in PayRow
              /\ pays \in [Pays -> PayRow]
            BY Typed
        <2>1. ASSUME NEW h \in Handler, reqs' = [reqs EXCEPT ![r] = h],
                     h.pc # "idle" => h.msg = reqs[r].msg /\ reqs[r].pc # "idle"
              PROVE  /\ reqs' \in [Requests -> Handler]
                     /\ \A q \in Requests : reqs'[q].pc # "idle" =>
                                               reqs'[q].msg \in Messages
            BY <2>1, HandlerStep, Typed
        <2>2. CASE Acquire(r)
            BY <2>0, <2>1, <2>2, HandlerFacts, Typed DEF Acquire, TypeOK
        <2>3. CASE Busy(r)
            BY <2>0, <2>1, <2>3, IdleFacts DEF Busy, TypeOK
        <2>4. CASE AcquireFails(r)
            BY <2>0, <2>1, <2>4, IdleFacts DEF AcquireFails, TypeOK
        <2>5. CASE Find(r)
            <3> DEFINE row == pays[reqs[r].msg.pay]
            <3>1. row \in PayRow
                BY <2>5, Typed DEF Find
            <3>2. \/ reqs' = [reqs EXCEPT ![r] = Answered(reqs[r])]
                  \/ reqs' = [reqs EXCEPT ![r] = HasRead(reqs[r], row)]
                BY <2>0, <2>5 DEF Find
            <3> HIDE DEF row
            <3>3. /\ reqs' \in [Requests -> Handler]
                  /\ \A q \in Requests : reqs'[q].pc # "idle" =>
                                            reqs'[q].msg \in Messages
                BY <2>0, <2>1, <2>5, <3>1, <3>2, HandlerFacts DEF Find
            <3> QED BY <2>5, <3>3 DEF Find, TypeOK
        <2>6. CASE Settle(r)
            <3>1. reqs' = [reqs EXCEPT ![r] = Answered(reqs[r])]
                BY <2>0, <2>6 DEF Settle
            <3>2. /\ reqs' \in [Requests -> Handler]
                  /\ \A q \in Requests : reqs'[q].pc # "idle" =>
                                            reqs'[q].msg \in Messages
                BY <2>0, <2>1, <2>6, <3>1, HandlerFacts DEF Settle
            <3>3. reqs[r].msg.pay \in Pays
                BY <2>6, Typed DEF Settle
            <3>4. pays' \in [Pays -> PayRow]
                BY <2>0, <2>6, <3>3, SettledRow DEF Settle
            <3>5. credits' \in [Pays -> Nat]
                BY <2>6, <3>3, Typed DEF Settle
            <3> QED BY <2>6, <3>2, <3>4, <3>5 DEF Settle, TypeOK
        <2>7. CASE SettleFails(r)
            BY <2>0, <2>1, <2>7, HandlerFacts DEF SettleFails, TypeOK
        <2>8. CASE Release(r)
            <3>1. reqs[r].msg.pay \in Pays /\ reqs[r].msg \in Messages
                BY <2>8, Typed DEF Release
            <3>2. lock' \in [Pays -> Requests \cup {Free, Orphan}]
                BY <2>8, <3>1, Typed DEF Release
            <3>3. /\ reqs' \in [Requests -> Handler]
                  /\ \A q \in Requests : reqs'[q].pc # "idle" =>
                                            reqs'[q].msg \in Messages
                BY <2>0, <2>1, <2>8, IdleFacts DEF Release
            <3> QED BY <2>8, <3>1, <3>2, <3>3 DEF Release, TypeOK
        <2> QED BY <1>3, <2>2, <2>3, <2>4, <2>5, <2>6, <2>7, <2>8 DEF Handle
    <1>4. ASSUME NEW r \in Requests, HangUp(r)
          PROVE  TypeOK'
        BY <1>4 DEF HangUp, TypeOK
    <1>5. CASE Crash
        BY <1>5, IdleFacts DEF Crash, TypeOK
    <1>6. ASSUME NEW p \in Pays, LockExpires(p)
          PROVE  TypeOK'
        BY <1>6 DEF LockExpires, TypeOK
    <1>7. CASE UNCHANGED vars
        BY <1>7 DEF vars, TypeOK
    <1> QED BY <1>1, <1>2, <1>3, <1>4, <1>5, <1>6, <1>7 DEF Next

\* Handlers, keys and locks keep their types under every fault.
THEOREM PaymentTypeCorrect == Spec => []TypeOK
    BY InitType, TypeStep, PTL DEF Spec

-----------------------------------------------------------------------------
(* Every payment is credited exactly once *)

Holds(r) == reqs[r].pc \in {"read", "settle", "release"}

\* The inductive invariant: a handler past Acquire has the lock of its payment,
\* so what it read is what it overwrites.
Inv ==
    /\ \A r \in Requests : Holds(r) => lock[reqs[r].msg.pay] = r
    /\ \A r \in Requests :
          reqs[r].pc = "settle" => reqs[r].got.status = pays[reqs[r].msg.pay].status
    /\ \A r \in Requests : reqs[r].pc = "settle" => reqs[r].got.status # "none"
    /\ CreditedOnce

LEMMA InitInv == Init => Inv
    BY IdleFacts DEF Init, Inv, Holds, CreditedOnce, Nothing

\* A step in which nothing is credited or overwritten, the payments keep their
\* locks unless nobody holds them, and at most one handler changes.
LEMMA QuietStep ==
    ASSUME TypeOK, Inv, UNCHANGED <<pays, credits>>,
           NEW r \in Requests, NEW h \in Handler, reqs' = [reqs EXCEPT ![r] = h],
           \A q \in Requests : q # r /\ Holds(q) =>
              lock'[reqs[q].msg.pay] = lock[reqs[q].msg.pay],
           h.pc \in {"read", "settle", "release"} => lock'[h.msg.pay] = r,
           h.pc = "settle" => /\ h.got.status = pays[h.msg.pay].status
                              /\ h.got.status # "none"
    PROVE  Inv'
    <1>1. \A q \in Requests : reqs'[q] = IF q = r THEN h ELSE reqs[q]
        BY Typed
    <1>2. \A q \in Requests : Holds(q)' => lock'[reqs'[q].msg.pay] = q
        BY <1>1 DEF Holds, Inv
    <1> QED BY <1>1, <1>2 DEF Inv, CreditedOnce

LEMMA InvStep ==
    ASSUME "slow" \notin Faults
    PROVE  TypeOK /\ Inv /\ [Next]_vars => Inv'
    <1> SUFFICES ASSUME TypeOK, Inv, [Next]_vars PROVE Inv'
        OBVIOUS
    <1>0. \A p, q \in Requests : Holds(p) /\ Holds(q) /\ p # q
                                 => reqs[p].msg.pay # reqs[q].msg.pay
        BY DEF Inv
    <1>1. ASSUME NEW p \in Pays, Recharge(p)
          PROVE  Inv'
        <2>1. /\ pays[p].status = "none" /\ pays'[p].status = "pending"
              /\ \A q \in Pays : q # p => pays'[q] = pays[q]
            BY <1>1, Typed DEF Recharge, PayRow
        <2>2. \A r \in Requests : reqs[r].pc = "settle" => reqs[r].msg.pay \in Pays \ {p}
            BY <2>1, Typed DEF Inv
        <2> QED BY <1>1, <2>1, <2>2 DEF Recharge, Inv, Holds, CreditedOnce
    <1>2. ASSUME NEW r \in Requests, NEW m \in Messages, Deliver(r, m)
          PROVE  Inv'
        <2>1. CASE DedupKey(m) \in seen
            BY <1>2, <2>1 DEF Deliver, Inv, Holds, CreditedOnce
        <2>2. CASE DedupKey(m) \notin seen
            BY <1>2, <2>2, IdleFacts, QuietStep DEF Deliver
        <2> QED BY <2>1, <2>2
    <1>3. ASSUME NEW r \in Requests, Handle(r)
          PROVE  Inv'
        <2> DEFINE p == reqs[r].msg.pay
        <2>0. /\ reqs[r] \in Handler /\ reqs[r].got \in PayRow
              /\ reqs[r].pc # "idle" => p \in Pays
            BY Typed
        <2>2. CASE Acquire(r)
            <3>1. /\ reqs' = [reqs EXCEPT ![r] = Holding(reqs[r])]
                  /\ lock' = [lock EXCEPT ![p] = r] /\ lock[p] = Free /\ p \in Pays
                BY <2>0, <2>2 DEF Acquire
            <3>2. /\ Holding(reqs[r]) \in Handler
                  /\ Holding(reqs[r]).msg = reqs[r].msg
                  /\ Holding(reqs[r]).pc = "read"
                BY <2>0, HandlerFacts
            <3>3. \A q \in Requests : Holds(q) => reqs[q].msg.pay # p
                BY <3>1, PaymentAssumption DEF Inv
            <3>4. \A q \in Requests : q # r /\ Holds(q) =>
                     lock'[reqs[q].msg.pay] = lock[reqs[q].msg.pay]
                BY <3>1, <3>3, Typed
            <3>5. lock'[p] = r
                BY <3>1, Typed
            <3> DEFINE h == Holding(reqs[r])
            <3>6. lock'[h.msg.pay] = r /\ h.pc # "settle"
                BY <3>2, <3>5
            <3>7. UNCHANGED <<pays, credits>>
                BY <2>2 DEF Acquire
            <3> HIDE DEF h
            <3> QED BY <3>1, <3>2, <3>4, <3>6, <3>7, QuietStep DEF h
        <2>3. CASE Busy(r)
            BY <2>3, IdleFacts, QuietStep DEF Busy
        <2>4. CASE AcquireFails(r)
            BY <2>4, IdleFacts, QuietStep DEF AcquireFails
        <2>5. CASE Find(r)
            <3> DEFINE row == pays[p]
            <3>1. row \in PayRow /\ lock[p] = r
                BY <2>5, Typed DEF Find, Inv, Holds
            <3>2. /\ Answered(reqs[r]) \in Handler
                  /\ Answered(reqs[r]).msg = reqs[r].msg
                  /\ Answered(reqs[r]).pc = "release"
                  /\ HasRead(reqs[r], row) \in Handler
                  /\ HasRead(reqs[r], row).msg = reqs[r].msg
                  /\ HasRead(reqs[r], row).pc = "settle"
                  /\ HasRead(reqs[r], row).got = row
                BY <2>0, <3>1, HandlerFacts
            <3>3. CASE row.status = "none"
                <4>1. reqs' = [reqs EXCEPT ![r] = Answered(reqs[r])]
                    BY <2>0, <2>5, <3>3 DEF Find
                <4> QED BY <2>5, <3>1, <3>2, <4>1, QuietStep DEF Find
            <3>4. CASE row.status # "none"
                <4>1. reqs' = [reqs EXCEPT ![r] = HasRead(reqs[r], row)]
                    BY <2>0, <2>5, <3>4 DEF Find
                <4> DEFINE h == HasRead(reqs[r], row)
                <4>2. /\ lock'[h.msg.pay] = r
                      /\ h.got.status = pays[h.msg.pay].status
                      /\ h.got.status # "none"
                      /\ UNCHANGED <<pays, credits, lock>>
                    BY <2>5, <3>1, <3>2, <3>4 DEF Find
                <4> HIDE DEF h
                <4> QED BY <3>2, <4>1, <4>2, QuietStep DEF h
            <3> QED BY <3>3, <3>4
        <2>6. CASE Settle(r)
            <3> DEFINE v == Verdict(reqs[r].msg, reqs[r].got)
            <3>1. /\ reqs[r].pc = "settle" /\ Holds(r) /\ p \in Pays
                  /\ reqs[r].got.status = pays[p].status
                  /\ UNCHANGED lock
                BY <2>0, <2>6 DEF Settle, Holds, Inv
            <3>2. /\ Answered(reqs[r]).msg = reqs[r].msg
                  /\ Answered(reqs[r]).pc = "release"
                  /\ \A q \in Requests : reqs'[q] = IF q = r THEN Answered(reqs[r])
                                                    ELSE reqs[q]
                BY <2>0, <2>6, HandlerFacts, Typed DEF Settle
            <3>3. /\ \A q \in Pays : q # p => pays'[q] = pays[q] /\ credits'[q] = credits[q]
                  /\ pays'[p].status = IF v = "failed" THEN "failed"
                                       ELSE IF v = "credit" THEN "success"
                                       ELSE pays[p].status
                  /\ credits'[p] = IF v = "credit" THEN credits[p] + 1 ELSE credits[p]
                BY <2>6, <3>1, Typed DEF Settle, PayRow
            <3>4. /\ v \in {"success", "failed", "credit"}
                  /\ v = "success" <=> pays[p].status = "success"
                BY <3>1 DEF Verdict
            <3>5. credits'[p] = IF pays'[p].status = "success" THEN 1 ELSE 0
                BY <3>1, <3>3, <3>4 DEF Inv, CreditedOnce
            <3>6. CreditedOnce'
                BY <3>3, <3>5 DEF Inv, CreditedOnce
            <3>7. \A q \in Requests : reqs'[q].pc = "settle" =>
                     q # r /\ reqs[q].msg.pay # p /\ reqs[q].msg.pay \in Pays
                BY <1>0, <3>1, <3>2, Typed DEF Holds
            <3>8. \A q \in Requests : Holds(q)' => lock'[reqs'[q].msg.pay] = q
                BY <3>1, <3>2 DEF Holds, Inv
            <3> QED BY <3>2, <3>3, <3>6, <3>7, <3>8 DEF Inv
        <2>7. CASE SettleFails(r)
            <3>1. /\ Erred(reqs[r]) \in Handler
                  /\ Erred(reqs[r]).msg = reqs[r].msg
                  /\ Erred(reqs[r]).pc = "release"
                BY <2>0, HandlerFacts
            <3>2. reqs' = [reqs EXCEPT ![r] = Erred(reqs[r])]
                BY <2>0, <2>7 DEF SettleFails
            <3>3. lock[p] = r
                BY <2>7 DEF SettleFails, Inv, Holds
            <3> QED BY <2>7, <3>1, <3>2, <3>3, QuietStep DEF SettleFails
        <2>8. CASE Release(r)
            <3>1. Holds(r) /\ p \in Pays
                BY <2>0, <2>8 DEF Release, Holds
            <3>2. \A q \in Requests : q # r /\ Holds(q) =>
                     lock'[reqs[q].msg.pay] = lock[reqs[q].msg.pay]
                BY <1>0, <2>8, <3>1, Typed DEF Release, Holds
            <3> QED BY <2>8, <3>2, IdleFacts, QuietStep DEF Release
        <2> QED BY <1>3, <2>2, <2>3, <2>4, <2>5, <2>6, <2>7, <2>8 DEF Handle
    <1>4. ASSUME NEW r \in Requests, HangUp(r)
          PROVE  Inv'
        BY <1>4 DEF HangUp, Inv, Holds, CreditedOnce
    <1>5. CASE Crash
        <2>1. \A r \in Requests : reqs'[r].pc = "idle"
            BY <1>5, IdleFacts DEF Crash
        <2> QED BY <1>5, <2>1 DEF Crash, Inv, Holds, CreditedOnce
    <1>6. ASSUME NEW p \in Pays, LockExpires(p)
          PROVE  Inv'
        <2>1. lock[p] = Orphan /\ lock' = [lock EXCEPT ![p] = Free]
            BY <1>6 DEF LockExpires
        <2>2. \A q \in Requests : Holds(q) => reqs[q].msg.pay # p
            BY <2>1, PaymentAssumption DEF Inv
        <2>3. \A q \in Requests : Holds(q) =>
                 lock'[reqs[q].msg.pay] = lock[reqs[q].msg.pay]
            BY <2>1, <2>2, Typed DEF Holds
        <2> QED BY <1>6, <2>3 DEF LockExpires, Inv, Holds, CreditedOnce
    <1>7. CASE UNCHANGED vars
        BY <1>7 DEF vars, Inv, Holds, CreditedOnce
    <1> QED BY <1>1, <1>2, <1>3, <1>4, <1>5, <1>6, <1>7 DEF Next

(* The inductive invariant holds as long as no handler outlives its lock: a  *)
(* handler past Acquire owns the lock, and the row it read is still current. *)
THEOREM InvHolds ==
    ASSUME "slow" \notin Faults
    PROVE  Spec => []Inv
    <1>1. Init => TypeOK /\ Inv
        BY InitType, InitInv
    <1>2. TypeOK /\ Inv /\ [Next]_vars => (TypeOK /\ Inv)'
        BY TypeStep, InvStep
    <1> QED BY <1>1, <1>2, PTL DEF Spec

\* A payment is credited exactly once if it succeeded and never otherwise,
\* whatever is delivered, and through crashes, hang-ups and failed
\* transactions, provided no handler is still running when its lock expires.
THEOREM PaymentCreditedOnce ==
    ASSUME "slow" \notin Faults
    PROVE  Spec => []CreditedOnce
    <1>1. Inv => CreditedOnce
        BY DEF Inv
    <1> QED BY <1>1, InvHolds, PTL

\* No late failure or mismatch takes a success back, under the same condition.
THEOREM SuccessStays ==
    ASSUME "slow" \notin Faults
    PROVE  Spec => SuccessIsFinal
    <1>1. TypeOK /\ Inv /\ [Next]_vars =>
             [\A p \in Pays : pays[p].status = "success"
                              => pays'[p].status = "success"]_vars
        <2> SUFFICES ASSUME TypeOK, Inv, Next, NEW p \in Pays,
                            pays[p].status = "success"
                     PROVE  pays'[p].status = "success"
            OBVIOUS
        <2>1. ASSUME NEW q \in Pays, Recharge(q)
              PROVE  pays'[p].status = "success"
            BY <2>1, Typed DEF Recharge
        <2>2. ASSUME NEW r \in Requests, Settle(r)
              PROVE  pays'[p].status = "success"
            <3> DEFINE q == reqs[r].msg.pay
                       v == Verdict(reqs[r].msg, reqs[r].got)
            <3>1. q \in Pays /\ reqs[r].got.status = pays[q].status
                BY <2>2, Typed DEF Settle, Inv
            <3>2. pays'[p].status = IF p # q THEN pays[p].status
                                    ELSE IF v = "failed" THEN "failed"
                                    ELSE IF v = "credit" THEN "success"
                                    ELSE pays[p].status
                BY <2>2, <3>1, Typed DEF Settle
            <3> QED BY <3>1, <3>2 DEF Verdict
        <2>3. ASSUME UNCHANGED pays
              PROVE  pays'[p].status = "success"
            BY <2>3
        <2> QED BY <2>1, <2>2, <2>3
                DEF Next, Handle, Deliver, Acquire, Busy, AcquireFails, Find,
                    SettleFails, Release, HangUp, Crash, LockExpires
    <1> QED BY <1>1, PaymentTypeCorrect, InvHolds, PTL DEF Spec, SuccessIsFinal

-----------------------------------------------------------------------------
(* What was acknowledged is credited *)

\* The gateway reports only successes of the right amount, or without one.
OnlySuccesses == \A m \in Messages : m.ok /\ m.amount \in {0, Amount[m.pay]}

Issued == Pays \ Unissued

\* Payment p is credited, or a callback about it is still being handled.
Covered(p) == pays[p].status = "success" \/ ~Quiet(p)

\* Whoever has a lock is working under it.
HolderWorks ==
    \A p \in Pays : lock[p] # Free =>
       /\ lock[p] \in Requests /\ Holds(lock[p])
       /\ reqs[lock[p]].msg.pay = p

\* A callback about an issued payment finds it; one that found it successful
\* has nothing left to do, and one that is done leaves it successful.
WorkIsDone ==
    \A r \in Requests : reqs[r].pc # "idle" /\ reqs[r].msg.pay \in Issued =>
       /\ pays[reqs[r].msg.pay].status # "none"
       /\ reqs[r].pc = "settle" /\ reqs[r].got.status = "success"
             => pays[reqs[r].msg.pay].status = "success"
       /\ reqs[r].pc = "release" => pays[reqs[r].msg.pay].status = "success"

\* The inductive invariant: an answer that was given, and a key that makes the
\* next delivery a duplicate, are covered.
AckInv ==
    /\ gone = {}
    /\ HolderWorks
    /\ WorkIsDone
    /\ \A m \in Messages :
          m.pay \in Issued /\ (m \in acked \/ DedupKey(m) \in seen) => Covered(m.pay)

LEMMA AckInvImplies ==
    ASSUME TypeOK, AckInv
    PROVE  AcknowledgedIsCredited
    BY PaymentAssumption DEF TypeOK, AckInv, AcknowledgedIsCredited, Covered, Issued

LEMMA InitAck == Init => AckInv
    BY IdleFacts DEF Init, AckInv, HolderWorks, WorkIsDone, Holds

\* A step of one handler that goes on with its message, leaves the payments and
\* the keys alone, and keeps whatever lock it has.
LEMMA GoesOn ==
    ASSUME TypeOK, AckInv, NEW r \in Requests, NEW h \in Handler,
           reqs[r].pc # "idle", h.pc # "idle", h.msg = reqs[r].msg,
           reqs' = [reqs EXCEPT ![r] = h],
           UNCHANGED <<pays, seen, gone, acked>>,
           Holds(r) => h.pc \in {"read", "settle", "release"},
           h.msg.pay \in Issued =>
              /\ h.pc = "settle" /\ h.got.status = "success"
                    => pays[h.msg.pay].status = "success"
              /\ h.pc = "release" => pays[h.msg.pay].status = "success",
           \/ UNCHANGED lock
           \/ /\ lock' = [lock EXCEPT ![h.msg.pay] = r]
              /\ h.pc \in {"read", "settle", "release"}
    PROVE  AckInv'
    <1>1. \A q \in Requests : reqs'[q] = IF q = r THEN h ELSE reqs[q]
        BY Typed
    <1>2. \A p \in Pays : Covered(p) => Covered(p)'
        BY <1>1 DEF Covered, Quiet
    <1>3. \A m \in Messages : m.pay \in Pays
        BY PaymentAssumption
    <1>4. HolderWorks'
        <2>1. CASE UNCHANGED lock
            BY <1>1, <2>1 DEF AckInv, HolderWorks, Holds
        <2>2. CASE /\ lock' = [lock EXCEPT ![h.msg.pay] = r]
                   /\ h.pc \in {"read", "settle", "release"}
            <3>1. \A p \in Pays : lock'[p] = IF p = h.msg.pay THEN r ELSE lock[p]
                BY <2>2, Typed
            <3> QED BY <1>1, <2>2, <3>1 DEF AckInv, HolderWorks, Holds
        <2> QED BY <2>1, <2>2
    <1>5. WorkIsDone'
        BY <1>1 DEF AckInv, WorkIsDone
    <1> QED BY <1>2, <1>3, <1>4, <1>5 DEF AckInv, Issued, DedupKey

\* A handler ends: the payment it worked on is credited, or another handler
\* works on it.
LEMMA Ends ==
    ASSUME TypeOK, AckInv, NEW r \in Requests, reqs[r].pc # "idle",
           reqs' = [reqs EXCEPT ![r] = Idle],
           UNCHANGED <<pays, gone>>, seen' \subseteq seen,
           acked' \subseteq acked \cup {reqs[r].msg},
           HolderWorks',
           reqs[r].msg.pay \in Issued =>
              \/ pays[reqs[r].msg.pay].status = "success"
              \/ \E q \in Requests \ {r} : /\ reqs[q].pc # "idle"
                                           /\ reqs[q].msg.pay = reqs[r].msg.pay
    PROVE  AckInv'
    <1>1. \A q \in Requests : reqs'[q] = IF q = r THEN Idle ELSE reqs[q]
        BY Typed
    <1>2. Idle.pc = "idle"
        BY IdleFacts
    <1>3. \A p \in Issued : Covered(p) => Covered(p)'
        BY <1>1, <1>2 DEF Covered, Quiet
    <1>4. reqs[r].msg.pay \in Issued => Covered(reqs[r].msg.pay)
        BY DEF Covered, Quiet
    <1>5. WorkIsDone'
        BY <1>1, <1>2 DEF AckInv, WorkIsDone
    <1>6. \A m \in Messages :
             m.pay \in Issued /\ (m \in acked' \/ DedupKey(m) \in seen')
                => Covered(m.pay)
        BY <1>4 DEF AckInv
    <1>7. gone' = {}
        BY DEF AckInv
    <1>8. \A m \in Messages :
             m.pay \in Issued /\ (m \in acked' \/ DedupKey(m) \in seen')
                => Covered(m.pay)'
        BY <1>3, <1>6
    <1>9. \A m \in Messages : DedupKey(m)' = DedupKey(m)
        BY DEF DedupKey
    <1> QED BY <1>5, <1>7, <1>8, <1>9 DEF AckInv, Issued

LEMMA AckStep ==
    ASSUME Faults \subseteq {"slow"}, OnlySuccesses
    PROVE  TypeOK /\ AckInv /\ [Next]_vars => AckInv'
    <1> SUFFICES ASSUME TypeOK, AckInv, [Next]_vars PROVE AckInv'
        OBVIOUS
    <1>0. /\ "crash" \notin Faults /\ "hangup" \notin Faults /\ "db" \notin Faults
          /\ gone = {} /\ HolderWorks /\ WorkIsDone
        BY DEF AckInv
    <1>1. ASSUME NEW p \in Pays, Recharge(p)
          PROVE  AckInv'
        <2>1. /\ pays[p].status = "none" /\ pays'[p].status = "pending"
              /\ \A q \in Pays : q # p => pays'[q] = pays[q]
              /\ UNCHANGED <<seen, lock, reqs, gone, acked>>
            BY <1>1, Typed DEF Recharge, PayRow
        <2>2. \A q \in Pays : Covered(q) => Covered(q)'
            BY <2>1 DEF Covered, Quiet
        <2>3. HolderWorks' /\ gone' = {}
            BY <1>0, <2>1 DEF HolderWorks, Holds
        <2>4. WorkIsDone'
            BY <1>0, <2>1 DEF WorkIsDone, Issued
        <2>5. \A m \in Messages : m.pay \in Pays
            BY PaymentAssumption
        <2> QED BY <2>1, <2>2, <2>3, <2>4, <2>5 DEF AckInv, Issued, DedupKey
    <1>2. ASSUME NEW r \in Requests, NEW m \in Messages, Deliver(r, m)
          PROVE  AckInv'
        <2>0. /\ reqs[r].pc = "idle" /\ m.pay \in Pays
              /\ m.pay \in Issued => pays[m.pay].status # "none"
              /\ UNCHANGED <<pays, lock, gone>>
            BY <1>2, PaymentAssumption DEF Deliver, Issued
        <2>1. CASE DedupKey(m) \in seen
            BY <1>0, <1>2, <2>0, <2>1
               DEF Deliver, AckInv, HolderWorks, WorkIsDone, Holds, Covered, Quiet,
                   DedupKey, Issued
        <2>2. CASE DedupKey(m) \notin seen
            <3>1. /\ seen' = seen \cup {DedupKey(m)} /\ UNCHANGED acked
                  /\ \A q \in Requests : reqs'[q] = IF q = r THEN Entered(m)
                                                    ELSE reqs[q]
                BY <1>2, <2>2, Typed DEF Deliver
            <3>2. Entered(m).pc = "lock" /\ Entered(m).msg = m
                BY IdleFacts
            <3>3. \A p \in Pays : Covered(p) => Covered(p)'
                BY <2>0, <3>1, <3>2 DEF Covered, Quiet
            <3>4. Covered(m.pay)'
                BY <2>0, <3>1, <3>2 DEF Covered, Quiet
            <3>5. HolderWorks' /\ gone' = {}
                BY <1>0, <2>0, <3>1 DEF HolderWorks, Holds
            <3>6. WorkIsDone'
                BY <1>0, <2>0, <3>1, <3>2 DEF WorkIsDone, Issued
            <3>7. ASSUME NEW n \in Messages, n.pay \in Issued,
                         n \in acked' \/ DedupKey(n) \in seen'
                  PROVE  Covered(n.pay)'
                <4>1. n.pay \in Pays
                    BY PaymentAssumption
                <4>2. CASE n \in acked \/ DedupKey(n) \in seen
                    BY <3>3, <3>7, <4>1, <4>2 DEF AckInv
                <4>3. CASE DedupKey(n) = DedupKey(m)
                    <5>1. n.pay = m.pay
                        BY <4>3 DEF DedupKey
                    <5> QED BY <3>4, <5>1
                <4> QED BY <3>1, <3>7, <4>2, <4>3
            <3> QED BY <3>5, <3>6, <3>7 DEF AckInv, Issued, DedupKey
        <2> QED BY <2>1, <2>2
    <1>3. ASSUME NEW r \in Requests, Handle(r)
          PROVE  AckInv'
        <2> DEFINE p == reqs[r].msg.pay
        <2>0. /\ reqs[r] \in Handler /\ reqs[r].got \in PayRow
              /\ reqs[r].pc # "idle" => p \in Pays /\ reqs[r].msg \in Messages
            BY Typed
        <2>2. CASE Acquire(r)
            <3>1. /\ Holding(reqs[r]) \in Handler
                  /\ Holding(reqs[r]).msg = reqs[r].msg
                  /\ Holding(reqs[r]).pc = "read"
                BY <2>0, HandlerFacts
            <3>2. /\ reqs[r].pc = "lock" /\ lock' = [lock EXCEPT ![p] = r]
                  /\ reqs' = [reqs EXCEPT ![r] = Holding(reqs[r])]
                  /\ UNCHANGED <<pays, seen, gone, acked>>
                BY <2>0, <2>2 DEF Acquire
            <3> QED BY <3>1, <3>2, GoesOn
        <2>3. CASE Busy(r)
            <3>1. /\ reqs[r].pc = "lock" /\ lock[p] # Free
                  /\ seen' \subseteq seen
                  /\ reqs' = [reqs EXCEPT ![r] = Idle]
                  /\ UNCHANGED <<pays, lock, gone, acked>>
                BY <2>3 DEF Busy
            <3>2. \A q \in Requests : reqs'[q] = IF q = r THEN Idle ELSE reqs[q]
                BY <3>1, Typed
            <3>3. HolderWorks'
                BY <1>0, <3>1, <3>2 DEF HolderWorks, Holds
            <3>4. lock[p] \in Requests \ {r} /\ reqs[lock[p]].pc # "idle"
                  /\ reqs[lock[p]].msg.pay = p
                BY <1>0, <2>0, <3>1 DEF HolderWorks, Holds
            <3> QED BY <3>1, <3>3, <3>4, Ends
        <2>4. CASE AcquireFails(r)
            BY <1>0, <2>4 DEF AcquireFails
        <2>5. CASE Find(r)
            <3> DEFINE row == pays[p]
            <3>1. row \in PayRow /\ reqs[r].pc = "read"
                BY <2>5, Typed DEF Find
            <3>2. /\ Answered(reqs[r]) \in Handler
                  /\ Answered(reqs[r]).msg = reqs[r].msg
                  /\ Answered(reqs[r]).pc = "release"
                  /\ HasRead(reqs[r], row) \in Handler
                  /\ HasRead(reqs[r], row).msg = reqs[r].msg
                  /\ HasRead(reqs[r], row).pc = "settle"
                  /\ HasRead(reqs[r], row).got = row
                BY <2>0, <3>1, HandlerFacts
            <3>3. CASE row.status = "none"
                <4>1. reqs' = [reqs EXCEPT ![r] = Answered(reqs[r])]
                    BY <2>0, <2>5, <3>3 DEF Find
                <4>2. p \notin Issued
                    BY <1>0, <3>1, <3>3 DEF WorkIsDone
                <4> QED BY <2>5, <3>1, <3>2, <4>1, <4>2, GoesOn DEF Find
            <3>4. CASE row.status # "none"
                <4>1. reqs' = [reqs EXCEPT ![r] = HasRead(reqs[r], row)]
                    BY <2>0, <2>5, <3>4 DEF Find
                <4> DEFINE h == HasRead(reqs[r], row)
                <4>2. h.pc = "settle" /\ h.msg = reqs[r].msg
                      /\ (h.got.status = "success" => pays[h.msg.pay].status = "success")
                    BY <3>2
                <4> HIDE DEF h
                <4> QED BY <2>5, <3>1, <3>2, <4>1, <4>2, GoesOn DEF Find, h
            <3> QED BY <3>3, <3>4
        <2>6. CASE Settle(r)
            <3> DEFINE v == Verdict(reqs[r].msg, reqs[r].got)
            <3>1. /\ reqs[r].pc = "settle" /\ p \in Pays
                  /\ UNCHANGED <<seen, lock, gone, acked>>
                BY <2>0, <2>6 DEF Settle
            <3>2. /\ v = IF reqs[r].got.status = "success" THEN "success" ELSE "credit"
                BY <2>0, <3>1 DEF OnlySuccesses, Verdict
            <3>3. /\ \A q \in Pays : q # p => pays'[q] = pays[q]
                  /\ pays'[p].status = IF v = "credit" THEN "success"
                                       ELSE pays[p].status
                BY <2>6, <3>1, <3>2, Typed DEF Settle, PayRow
            <3> HIDE DEF v
            <3>4. p \in Issued => pays'[p].status = "success"
                BY <1>0, <3>1, <3>2, <3>3 DEF WorkIsDone
            <3>5. \A q \in Issued : pays[q].status = "success" =>
                                       pays'[q].status = "success"
                BY <3>3, <3>4 DEF Issued
            <3>6. /\ Answered(reqs[r]).msg = reqs[r].msg
                  /\ Answered(reqs[r]).pc = "release"
                  /\ \A q \in Requests : reqs'[q] = IF q = r THEN Answered(reqs[r])
                                                    ELSE reqs[q]
                BY <2>0, <2>6, HandlerFacts, Typed DEF Settle
            <3>7. \A q \in Issued : Covered(q) => Covered(q)'
                BY <3>1, <3>5, <3>6 DEF Covered, Quiet
            <3>8. HolderWorks' /\ gone' = {}
                BY <1>0, <3>1, <3>6 DEF HolderWorks, Holds
            <3>9. WorkIsDone'
                <4> SUFFICES ASSUME NEW q \in Requests, reqs'[q].pc # "idle",
                                    reqs'[q].msg.pay \in Issued
                             PROVE  /\ pays'[reqs'[q].msg.pay].status # "none"
                                    /\ reqs'[q].pc = "settle" /\ reqs'[q].got.status = "success"
                                         => pays'[reqs'[q].msg.pay].status = "success"
                                    /\ reqs'[q].pc = "release"
                                         => pays'[reqs'[q].msg.pay].status = "success"
                    BY DEF WorkIsDone, Issued
                <4>1. CASE q = r \/ reqs'[q].msg.pay = p
                    BY <3>4, <3>6, <4>1
                <4>2. CASE q # r /\ reqs'[q].msg.pay # p
                    BY <1>0, <3>3, <3>6, <4>2 DEF WorkIsDone, Issued
                <4> QED BY <4>1, <4>2
            <3> QED BY <3>1, <3>7, <3>8, <3>9 DEF AckInv, Issued, DedupKey
        <2>7. CASE SettleFails(r)
            BY <1>0, <2>7 DEF SettleFails
        <2>8. CASE Release(r)
            <3>1. /\ reqs[r].pc = "release" /\ p \in Pays
                  /\ UNCHANGED <<pays, seen>> /\ gone' = gone
                  /\ reqs' = [reqs EXCEPT ![r] = Idle]
                  /\ acked' \subseteq acked \cup {reqs[r].msg}
                  /\ \A q \in Pays : lock'[q] = IF q = p /\ lock[q] = r THEN Free
                                                ELSE lock[q]
                BY <1>0, <2>0, <2>8, Typed DEF Release
            <3>2. \A q \in Requests : reqs'[q] = IF q = r THEN Idle ELSE reqs[q]
                BY <3>1, Typed
            <3>3. HolderWorks'
                BY <1>0, <3>1, <3>2 DEF HolderWorks, Holds
            <3>4. p \in Issued => pays[p].status = "success"
                BY <1>0, <3>1 DEF WorkIsDone
            <3> QED BY <3>1, <3>3, <3>4, Ends
        <2> QED BY <1>3, <2>2, <2>3, <2>4, <2>5, <2>6, <2>7, <2>8 DEF Handle
    <1>4. ASSUME NEW r \in Requests, HangUp(r)
          PROVE  AckInv'
        BY <1>0, <1>4 DEF HangUp
    <1>5. CASE Crash
        BY <1>0, <1>5 DEF Crash
    <1>6. ASSUME NEW p \in Pays, LockExpires(p)
          PROVE  AckInv'
        <2>1. /\ \A q \in Pays : lock'[q] = IF q = p THEN Free ELSE lock[q]
              /\ UNCHANGED <<pays, seen, reqs, gone, acked>>
            BY <1>6, Typed DEF LockExpires
        <2> QED BY <2>1 DEF AckInv, HolderWorks, WorkIsDone, Holds, Covered, Quiet,
                            DedupKey, Issued
    <1>7. CASE UNCHANGED vars
        BY <1>7 DEF vars, AckInv, HolderWorks, WorkIsDone, Holds, Covered, Quiet,
                    DedupKey, Issued
    <1> QED BY <1>1, <1>2, <1>3, <1>4, <1>5, <1>6, <1>7 DEF Next

\* When every outcome the gateway reports is a success of the right amount and
\* nothing fails, a callback that was answered, its own or as a duplicate, is
\* about a payment that is credited as soon as nobody works on it: a key is
\* taken back before its handler gives up, and the handler that has the lock
\* does the work of the one it turned away.  Handlers may outlive their locks.
THEOREM AcknowledgedAreCredited ==
    ASSUME Faults \subseteq {"slow"}, OnlySuccesses
    PROVE  Spec => []AcknowledgedIsCredited
    <1>1. Init => TypeOK /\ AckInv
        BY InitType, InitAck
    <1>2. TypeOK /\ AckInv /\ [Next]_vars => (TypeOK /\ AckInv)'
        BY TypeStep, AckStep
    <1>3. TypeOK /\ AckInv => AcknowledgedIsCredited
        BY AckInvImplies
    <1> QED BY <1>1, <1>2, <1>3, PTL DEF Spec
=============================================================================
