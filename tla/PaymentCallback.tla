-------------------------- MODULE PaymentCallback --------------------------
(***************************************************************************)
(* PaymentService.HandleCallback: how a recharge is credited, step by      *)
(* step.  A callback first takes a deduplication key in Redis, then the    *)
(* lock of the payment, then reads the payment and settles it, and answers *)
(* once the lock is released.  Any number of callbacks run at a time; the  *)
(* gateway delivers any message at any time and as often as it likes.      *)
(*                                                                         *)
(* Faults says what may go wrong: "crash" (the server dies, Redis and the  *)
(* database do not), "hangup" (the gateway gives up waiting, which cancels *)
(* the request's context: every later Redis call fails, the database calls *)
(* do not use it), "db" (the transaction fails), and "slow" (a handler     *)
(* takes longer than the 15 seconds its lock lives).                       *)
(***************************************************************************)
EXTENDS Naturals

CONSTANTS
    Pays,           \* payment numbers
    Unissued,       \* those no recharge has: callbacks about them are refused
    Amount,         \* the amount of each payment
    Txns,           \* third-party transaction numbers
    Messages,       \* the callbacks the gateway may deliver
    Requests,       \* request handlers
    Free, Orphan,   \* a lock nobody holds; one whose holder will not free it
    NoMsg,          \* what an idle handler works on
    Faults,
    MaxDeliveries   \* bound: callbacks delivered

ASSUME PaymentAssumption ==
    /\ Unissued \subseteq Pays
    /\ Amount \in [Pays -> Nat \ {0}]
    /\ Messages \subseteq [pay: Pays, txn: Txns, amount: Nat, ok: BOOLEAN]
    /\ Free \notin Requests /\ Orphan \notin Requests /\ Free # Orphan
    /\ NoMsg \notin Messages
    /\ Faults \subseteq {"crash", "hangup", "db", "slow"}
    /\ MaxDeliveries \in Nat

VARIABLES
    pays,           \* payment_records
    credits,        \* how often a payment was added to its user's balance
    seen,           \* the pay_cb:* keys in Redis (they live for 30 days)
    lock,           \* the pay_cb_lock:* keys, with their holders
    reqs,           \* the handlers
    gone,           \* the handlers whose caller has hung up
    acked,          \* messages the gateway got an answer to
    deliveries

vars == <<pays, credits, seen, lock, reqs, gone, acked, deliveries>>

PayStatus == {"none", "pending", "success", "failed"}

\* count is callback_cnt.
PayRow == [status: PayStatus, count: Nat]

\* got is the row the handler read; ack says that it has an answer other than
\* an error.
Handler == [pc: {"idle", "lock", "read", "settle", "release"},
            msg: Messages \cup {NoMsg}, got: PayRow, ack: BOOLEAN]

Nothing == [status |-> "none", count |-> 0]

Idle == [pc |-> "idle", msg |-> NoMsg, got |-> Nothing, ack |-> FALSE]

\* The ways a handler's record changes.
Entered(m) == [Idle EXCEPT !.pc = "lock", !.msg = m]
Holding(h) == [h EXCEPT !.pc = "read"]
HasRead(h, row) == [h EXCEPT !.pc = "settle", !.got = row]
Answered(h) == [h EXCEPT !.pc = "release", !.ack = TRUE]
Erred(h) == [h EXCEPT !.pc = "release"]

\* The deduplication key: whether the payment succeeded is no part of it.
DedupKey(m) == <<m.pay, m.txn, m.amount>>

TypeOK ==
    /\ pays \in [Pays -> PayRow]
    /\ credits \in [Pays -> Nat]
    /\ seen \subseteq Pays \X Txns \X Nat
    /\ lock \in [Pays -> Requests \cup {Free, Orphan}]
    /\ reqs \in [Requests -> Handler]
    /\ \A r \in Requests : reqs[r].pc # "idle" => reqs[r].msg \in Messages
    /\ gone \subseteq Requests
    /\ acked \subseteq Messages
    /\ deliveries \in Nat

Init ==
    /\ pays = [p \in Pays |-> Nothing]
    /\ credits = [p \in Pays |-> 0]
    /\ seen = {}
    /\ lock = [p \in Pays |-> Free]
    /\ reqs = [r \in Requests |-> Idle]
    /\ gone = {}
    /\ acked = {}
    /\ deliveries = 0

-----------------------------------------------------------------------------
(* The steps *)

\* Mutant of Recharge: the column's default status, init, instead of pending.
RechargeInit(p) ==
    /\ p \notin Unissued
    /\ pays[p].status = "none"
    /\ pays' = [pays EXCEPT ![p].status = "init"]
    /\ UNCHANGED <<credits, seen, lock, reqs, gone, acked, deliveries>>

Recharge(p) ==
    /\ p \notin Unissued
    /\ pays[p].status = "none"
    /\ pays' = [pays EXCEPT ![p].status = "pending"]
    /\ UNCHANGED <<credits, seen, lock, reqs, gone, acked, deliveries>>

\* A callback whose key exists is answered as a duplicate, without a look at
\* the payment; otherwise it takes the key.  MockPay delivers a message with a
\* transaction number of its own.
Deliver(r, m) ==
    /\ reqs[r].pc = "idle"
    /\ deliveries < MaxDeliveries
    /\ m.pay \in Unissued \/ pays[m.pay].status # "none"
    /\ deliveries' = deliveries + 1
    /\ IF DedupKey(m) \in seen
       THEN acked' = acked \cup {m} /\ UNCHANGED <<seen, reqs>>
       ELSE /\ seen' = seen \cup {DedupKey(m)}
            /\ reqs' = [reqs EXCEPT ![r] = Entered(m)]
            /\ UNCHANGED acked
    /\ UNCHANGED <<pays, credits, lock, gone>>

Acquire(r) ==
    /\ reqs[r].pc = "lock" /\ r \notin gone
    /\ lock[reqs[r].msg.pay] = Free
    /\ lock' = [lock EXCEPT ![reqs[r].msg.pay] = r]
    /\ reqs' = [reqs EXCEPT ![r] = Holding(@)]
    /\ UNCHANGED <<pays, credits, seen, gone, acked, deliveries>>

\* The lock is not to be had: the key is given back, for the retry.
Busy(r) ==
    /\ reqs[r].pc = "lock" /\ r \notin gone
    /\ lock[reqs[r].msg.pay] # Free
    /\ seen' = seen \ {DedupKey(reqs[r].msg)}
    /\ reqs' = [reqs EXCEPT ![r] = Idle]
    /\ UNCHANGED <<pays, credits, lock, gone, acked, deliveries>>

\* With the context cancelled neither the lock is taken nor the key deleted.
AcquireFails(r) ==
    /\ reqs[r].pc = "lock" /\ r \in gone
    /\ reqs' = [reqs EXCEPT ![r] = Idle]
    /\ gone' = gone \ {r}
    /\ UNCHANGED <<pays, credits, seen, lock, acked, deliveries>>

Find(r) ==
    LET row == pays[reqs[r].msg.pay]
    IN  /\ reqs[r].pc = "read"
        /\ reqs' = [reqs EXCEPT
               ![r] = IF row.status = "none"
                      THEN Answered(@) ELSE HasRead(@, row)]
        /\ UNCHANGED <<pays, credits, seen, lock, gone, acked, deliveries>>

\* Mutants of Verdict: a success is not recognised; the amount is compared
\* first; a callback without an amount counts as processed.
VerdictBlind(m, got) ==
    IF m.amount > 0 /\ m.amount # Amount[m.pay] THEN "failed"
    ELSE IF m.ok THEN "credit"
    ELSE "failed"

VerdictAmountFirst(m, got) ==
    IF m.amount > 0 /\ m.amount # Amount[m.pay] THEN "failed"
    ELSE IF got.status = "success" THEN "success"
    ELSE IF m.ok THEN "credit"
    ELSE "failed"

VerdictNeedsAmount(m, got) ==
    IF got.status = "success" \/ m.amount = 0 THEN "success"
    ELSE IF m.amount # Amount[m.pay] THEN "failed"
    ELSE IF m.ok THEN "credit"
    ELSE "failed"

\* What the callback makes of the payment it read.  An amount of 0 is not
\* compared.
Verdict(m, got) ==
    IF got.status = "success" THEN "success"
    ELSE IF m.amount > 0 /\ m.amount # Amount[m.pay] THEN "failed"
    ELSE IF m.ok THEN "credit"
    ELSE "failed"

\* Mutant of Settle: the success is credited but not written to the payment.
SettleUnrecorded(r) ==
    LET m == reqs[r].msg
        got == reqs[r].got
        verdict == Verdict(m, got)
    IN  /\ reqs[r].pc = "settle"
        /\ pays' = [pays EXCEPT
               ![m.pay] = [status |-> IF verdict = "failed" THEN "failed"
                                      ELSE @.status,
                           count |-> got.count + 1]]
        /\ credits' = IF verdict = "credit"
                      THEN [credits EXCEPT ![m.pay] = @ + 1] ELSE credits
        /\ reqs' = [reqs EXCEPT ![r] = Answered(@)]
        /\ UNCHANGED <<seen, lock, gone, acked, deliveries>>

\* The columns the handler writes, over whatever the row holds now.
Settle(r) ==
    LET m == reqs[r].msg
        got == reqs[r].got
        verdict == Verdict(m, got)
    IN  /\ reqs[r].pc = "settle"
        /\ pays' = [pays EXCEPT
               ![m.pay] = [status |-> IF verdict = "failed" THEN "failed"
                                      ELSE IF verdict = "credit" THEN "success"
                                      ELSE @.status,
                           count |-> got.count + 1]]
        /\ credits' = IF verdict = "credit"
                      THEN [credits EXCEPT ![m.pay] = @ + 1] ELSE credits
        /\ reqs' = [reqs EXCEPT ![r] = Answered(@)]
        /\ UNCHANGED <<seen, lock, gone, acked, deliveries>>

\* The transaction that would credit the payment is rolled back: the callback
\* fails, and its key stays.
SettleFails(r) ==
    /\ "db" \in Faults
    /\ reqs[r].pc = "settle"
    /\ Verdict(reqs[r].msg, reqs[r].got) = "credit"
    /\ reqs' = [reqs EXCEPT ![r] = Erred(@)]
    /\ UNCHANGED <<pays, credits, seen, lock, gone, acked, deliveries>>

\* The deferred release frees the lock if it is still this handler's, and then
\* the answer goes out.
Release(r) ==
    LET m == reqs[r].msg
    IN  /\ reqs[r].pc = "release"
        /\ lock' = [lock EXCEPT ![m.pay] = IF @ # r THEN @
                                           ELSE IF r \in gone THEN Orphan
                                           ELSE Free]
        /\ acked' = IF reqs[r].ack /\ r \notin gone THEN acked \cup {m} ELSE acked
        /\ reqs' = [reqs EXCEPT ![r] = Idle]
        /\ gone' = gone \ {r}
        /\ UNCHANGED <<pays, credits, seen, deliveries>>

-----------------------------------------------------------------------------
(* The faults *)

HangUp(r) ==
    /\ "hangup" \in Faults
    /\ reqs[r].pc # "idle"
    /\ gone' = gone \cup {r}
    /\ UNCHANGED <<pays, credits, seen, lock, reqs, acked, deliveries>>

\* A transaction that was not committed leaves nothing behind.
Crash ==
    /\ "crash" \in Faults
    /\ reqs' = [r \in Requests |-> Idle]
    /\ gone' = {}
    /\ lock' = [p \in Pays |-> IF lock[p] = Free THEN Free ELSE Orphan]
    /\ UNCHANGED <<pays, credits, seen, acked, deliveries>>

\* Mutant of LockExpires: the lock is set without a time to live.
LockStays(p) == lock[p] # Free /\ FALSE /\ UNCHANGED vars

\* Redis drops a lock after its 15 seconds.
LockExpires(p) ==
    /\ lock[p] # Free
    /\ lock[p] = Orphan \/ "slow" \in Faults
    /\ lock' = [lock EXCEPT ![p] = Free]
    /\ UNCHANGED <<pays, credits, seen, reqs, gone, acked, deliveries>>

-----------------------------------------------------------------------------

Handle(r) ==
    \/ Acquire(r) \/ Busy(r) \/ AcquireFails(r)
    \/ Find(r) \/ Settle(r) \/ SettleFails(r) \/ Release(r)

Next ==
    \/ \E p \in Pays : Recharge(p)
    \/ \E r \in Requests, m \in Messages : Deliver(r, m)
    \/ \E r \in Requests : Handle(r)
    \/ \E r \in Requests : HangUp(r)
    \/ Crash
    \/ \E p \in Pays : LockExpires(p)

\* Handlers run to their end, and Redis expires what it was told to expire.
\* Nobody has to recharge, to deliver, to hang up or to crash.
Fairness ==
    /\ \A r \in Requests : WF_vars(Handle(r))
    /\ \A p \in Pays : WF_vars(LockExpires(p) /\ lock[p] = Orphan)

Spec == Init /\ [][Next]_vars

FairSpec == Spec /\ Fairness

-----------------------------------------------------------------------------
(* Properties *)

\* However often and in whatever order callbacks are delivered, a payment is
\* credited exactly once if it is successful and never if it is not.
CreditedOnce ==
    \A p \in Pays : credits[p] = IF pays[p].status = "success" THEN 1 ELSE 0

\* A late failure or mismatch does not take a success back: what a handler
\* read before is still true when it writes.
SuccessIsFinal ==
    [][\A p \in Pays : pays[p].status = "success" => pays'[p].status = "success"]_vars

\* The lock of a payment always becomes free again, even when its holder died
\* or could not delete it.
LockComesBack == \A p \in Pays : lock[p] # Free ~> lock[p] = Free

\* Nothing is being done about p.
Quiet(p) == \A r \in Requests : reqs[r].pc # "idle" => reqs[r].msg.pay # p

\* When the gateway got its answer to a success of the right amount, so that it
\* will not deliver it again, and no callback is being handled any more, the
\* payment is credited.
AcknowledgedIsCredited ==
    \A m \in acked :
        m.ok /\ m.amount = Amount[m.pay] /\ m.pay \notin Unissued /\ Quiet(m.pay)
            => pays[m.pay].status = "success"

\* A delivered success is credited in the end: by its own handler, or by the
\* one it lost the lock to.
DeliveredIsCredited ==
    \A r \in Requests, p \in Pays \ Unissued :
        reqs[r].pc # "idle" /\ reqs[r].msg.pay = p ~> pays[p].status = "success"

-----------------------------------------------------------------------------
(* Claims of the documents *)

\* README: the amount of a callback must be exactly the amount of the payment,
\* otherwise the payment fails.
OnlyExactAmounts ==
    [][\A r \in Requests :
          LET m == reqs[r].msg
          IN  reqs[r].pc = "settle" /\ credits' # credits /\ reqs'[r].pc = "release"
              => m.amount = Amount[m.pay]]_vars
=============================================================================
