------------------------- MODULE MCPaymentCallback -------------------------
(* Small instances of PaymentCallback for TLC. *)
EXTENDS PaymentCallback, TLC

CONSTANTS p1, p2, t1, t2, r1, r2, r3

Message(p, t, a, ok) == [pay |-> p, txn |-> t, amount |-> a, ok |-> ok]

\* p2 was never issued.
OneAmount == (p1 :> 5) @@ (p2 :> 5)

\* Every outcome a callback may have: paid, paid in a second attempt, paid
\* without an amount, paid with a wrong one, declined, and an unknown payment.
AnyMessage ==
    {Message(p1, t1, 5, TRUE), Message(p1, t2, 5, TRUE), Message(p1, t2, 0, TRUE),
     Message(p1, t2, 3, TRUE), Message(p1, t1, 5, FALSE), Message(p2, t1, 5, TRUE)}

\* Attempts that all succeed, one of them reported without an amount.
AllPaid == {Message(p1, t1, 5, TRUE), Message(p1, t2, 5, TRUE),
            Message(p1, t2, 0, TRUE)}

\* An attempt that is declined first and then paid.
DeclinedThenPaid == {Message(p1, t1, 5, FALSE), Message(p1, t1, 5, TRUE)}
=============================================================================
