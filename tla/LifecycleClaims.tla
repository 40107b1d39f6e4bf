-------------------------- MODULE LifecycleClaims ---------------------------
(***************************************************************************)
(* The abstract specification OrderLifecycle implements, and statements of *)
(* the repository's documents and messages about the life of an order that *)
(* the code does not keep.                                                 *)
(***************************************************************************)
EXTENDS OrderLifecycle

Deposits ==
    [o \in OrderIds |->
        [owner |-> orders[o].user, amount |-> orders[o].depositAmt,
         open |-> orders[o].depositStatus = 1, kept |-> ledger[o].deduct]]

Abstract == INSTANCE DepositAccount
    WITH Owners <- Users, wallet <- balance, deposits <- Deposits

\* Every handler, seen from the wallet, credits it, opens a deposit, closes
\* one, or does nothing: rentals, returns, losses, compensations and disputes
\* implement the deposit account.
Refinement == Abstract!Spec

-----------------------------------------------------------------------------
(* Claims *)

\* README: repeated scans must not charge twice.  A user whose scans failed
\* has at most one deposit frozen for them.
FailedScansFreezeOnce ==
    \A o, p \in OrderIds :
        /\ orders[o].user = orders[p].user
        /\ orders[o].status = "abnormal" /\ orders[o].depositStatus = 1
        /\ orders[p].status = "abnormal" /\ orders[p].depositStatus = 1
        => o = p

\* The end-to-end test computes what a returned order actually paid as the
\* part of its fee the deposit covers.
PaidFeeIsCovered ==
    \A o \in OrderIds :
        orders[o].status = "completed" => orders[o].paidFee <= ledger[o].deduct

\* README: MarkDamage adds a compensation to the bill of the order.  Settling
\* the order keeps it there.
DamageFeeStaysBilled ==
    [][\A o \in OrderIds : orders'[o].exceptionFee >= orders[o].exceptionFee]_vars

\* The remarks of the recovery: when an offline cabinet is back, the orders
\* that failed because of it are decided.
RecoveryDecidesOfflineOrders ==
    [][\A c \in Cabinets :
          cabinets[c] = "offline" /\ cabinets'[c] = "online" =>
              \A o \in OrderIds :
                  /\ Undecided(o)
                  /\ orders[o].reason = "cabinet_offline"
                  /\ CabinetOf[orders[o].slot] = c
                  => <<o, "recovered">> \in pending']_vars

\* The remark of a recreation: the user did take the battery out.  So nobody
\* else is renting it when a report makes the order of a failed scan rent.
RecreatedBatteryIsFree ==
    [][\A o, p \in OrderIds :
          /\ <<o, "unlocked">> \in pending \ pending'
          /\ ~Renting(o) /\ orders'[o].status = "renting"
          /\ Renting(p)
          => orders[p].battery # orders[o].battery]_vars

\* The remark of a failed recreation: the order goes to manual review, so a
\* decision never leaves an order open.
DecisionsCloseOrReview ==
    [][\A o \in OrderIds, r \in Reports :
          <<o, r>> \in pending \ pending' => orders'[o].comp # 0]_vars
=============================================================================
