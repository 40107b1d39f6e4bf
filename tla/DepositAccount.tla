--------------------------- MODULE DepositAccount ---------------------------
(***************************************************************************)
(* What the service promises about deposits, without orders, devices or    *)
(* operators: money leaves a wallet only into a deposit the owner can      *)
(* afford; a deposit is closed at most once; closing it splits it between  *)
(* the service and the wallet it came from, and nothing else moves.        *)
(* OrderLifecycle implements this (Refinement there).                      *)
(***************************************************************************)
EXTENDS Naturals

CONSTANT Owners

VARIABLES
    wallet,     \* what each owner may spend
    deposits    \* the deposits made so far, in order

Account == [owner: Owners, amount: Nat, open: BOOLEAN, kept: Nat]

Ids == DOMAIN deposits

Init ==
    /\ wallet = [u \in Owners |-> 0]
    /\ deposits = [i \in 1..0 |-> 0]

\* Money from outside: a payment, or a refund granted on a dispute.
Credit(u) ==
    /\ wallet'[u] \in Nat
    /\ wallet'[u] >= wallet[u]
    /\ wallet' = [wallet EXCEPT ![u] = wallet'[u]]
    /\ UNCHANGED deposits

\* Freeze an amount; a deposit-free owner opens nothing but is listed.
Open(u, amount, n) ==
    /\ wallet' = [wallet EXCEPT ![u] = @ - amount]
    /\ Ids = 1..n
    /\ deposits' =
          [i \in 1..n + 1 |->
              IF i = n + 1
              THEN [owner |-> u, amount |-> amount, open |-> amount > 0,
                    kept |-> 0]
              ELSE deposits[i]]

\* Keep a part, give the rest back.
Close(i, part) ==
    /\ deposits[i].open
    /\ deposits' = [deposits EXCEPT ![i].open = FALSE, ![i].kept = part]
    /\ wallet' = [wallet EXCEPT
                     ![deposits[i].owner] = @ + (deposits[i].amount - part)]

Next ==
    \/ \E u \in Owners : Credit(u)
    \/ \E u \in Owners, n \in Ids \cup {0} :
          \E amount \in 0..wallet[u] : Open(u, amount, n)
    \/ \E i \in Ids : \E part \in 0..deposits[i].amount : Close(i, part)

Spec == Init /\ [][Next]_<<wallet, deposits>>
=============================================================================
