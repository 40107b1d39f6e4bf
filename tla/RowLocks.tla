------------------------------ MODULE RowLocks ------------------------------
(***************************************************************************)
(* The row locks the handlers' transactions take in PostgreSQL, and the    *)
(* order they take them in: which transactions can wait for each other in  *)
(* a circle.  Redis keeps some of them apart; the others meet here.        *)
(*                                                                         *)
(* A transaction locks rows by SELECT ... FOR UPDATE ("update"), by an     *)
(* UPDATE that leaves the keys alone ("write"), and by the foreign keys of *)
(* what it inserts ("key").  It holds them until it ends.  A row it has    *)
(* locked as strongly before is not listed again; neither are rows that    *)
(* nobody locks for update or that only one transaction can see (cabinets, *)
(* rules, new rows, the operator's own account).  Every transaction is the *)
(* longest its handler can run: the deposit is held, a refund is granted.  *)
(***************************************************************************)
EXTENDS Naturals, Sequences, FiniteSets

CONSTANTS
    Transactions,   \* transactions running at a time
    Kinds,          \* the handlers they belong to
    Users, Orders, Batteries, Slots,    \* rows
    OwnerOf,        \* the user each order belongs to
    RentedIn        \* the battery each order rents

VARIABLES
    job,            \* what each transaction is: a handler and its rows
    taken,          \* how many of its locks it has
    outcome         \* running, committed, or aborted to end a deadlock

vars == <<job, taken, outcome>>

L(mode, table) == [mode |-> mode, table |-> table]

\* ScanAndRent
ScanPlan ==
    <<L("update", "slot"), L("update", "battery"), L("key", "user"),
      L("write", "user")>>

\* createAbnormalOrder
AbnormalPlan ==
    <<L("key", "user"), L("key", "battery"), L("key", "slot"),
      L("write", "user")>>

\* DetectBatteryReturn
DetectPlan ==
    <<L("update", "user"), L("key", "order"), L("write", "order"),
      L("key", "slot"), L("key", "battery"), L("write", "slot"),
      L("write", "battery")>>

\* ManualReturn: the slot comes first.
ManualPlan ==
    <<L("update", "slot"), L("update", "user"), L("key", "order"),
      L("key", "battery"), L("write", "battery"), L("write", "order")>>

\* MarkLost: the foreign keys of the exception record come before the wallet,
\* which is left alone once the deposit is closed.
LostPlan(held) ==
    <<L("key", "order"), L("key", "user"), L("key", "battery")>>
    \o (IF held THEN <<L("update", "user")>> ELSE <<>>)
    \o <<L("write", "order"), L("write", "battery")>>

\* Mutant of DamagePlan: the order is saved before the record is inserted.
DamagePlanOrderFirst ==
    <<L("write", "order"), L("key", "user"), L("key", "battery"),
      L("write", "battery")>>

\* MarkDamage: the foreign keys of the exception record come first.
DamagePlan ==
    <<L("key", "order"), L("key", "user"), L("key", "battery"),
      L("write", "order"), L("write", "battery")>>

\* HandleDispute
DisputePlan == <<L("update", "order"), L("update", "user")>>

\* Mutant of CompensationPlan: the order is locked before the user.
CompensationPlanOrderFirst == <<L("update", "order"), L("update", "user")>>

\* decideCompensationActionWithReason and HandleAbnormalCompensation
CompensationPlan == <<L("update", "user"), L("key", "order"), L("write", "order")>>

\* ReportUnlockFailure
FailPlan ==
    <<L("key", "order"), L("key", "user"), L("key", "battery"),
      L("write", "order")>>

\* handleUnlockFailureForPendingOrders: the update comes first.
LateFailPlan == <<L("write", "order"), L("key", "user"), L("key", "battery")>>

\* The locks of each handler's transaction, in order.
Plan ==
    [scan           |-> ScanPlan,
     abnormal       |-> AbnormalPlan,
     detect         |-> DetectPlan,
     manual         |-> ManualPlan,
     lost           |-> LostPlan(TRUE),
     lost_closed    |-> LostPlan(FALSE),
     damage         |-> DamagePlan,
     dispute        |-> DisputePlan,
     decide         |-> CompensationPlan,
     compensate     |-> CompensationPlan,
     fail           |-> FailPlan,
     late_fail      |-> LateFailPlan,
     credit         |-> <<L("update", "user")>>,                         \* HandleCallback
     assign         |-> <<L("update", "slot"), L("update", "battery")>>, \* AssignBattery
     battery_report |-> <<L("write", "battery"), L("key", "slot")>>,     \* SlotReport: the
     slot_report    |-> <<L("write", "slot"), L("key", "battery")>>,     \* two rows it saves
     confirm        |-> <<L("write", "slot")>>]                          \* ConfirmUnlock

Handlers == DOMAIN Plan

\* The handlers of an order.
OfOrder == {"detect", "manual", "lost", "lost_closed", "damage", "dispute",
            "decide", "compensate", "fail", "late_fail"}

ASSUME RowLocksAssumption ==
    /\ Kinds \subseteq Handlers
    /\ OwnerOf \in [Orders -> Users]
    /\ RentedIn \in [Orders -> Batteries]

\* A handler and its rows: those of an order belong to the order.
Jobs ==
    {j \in [kind: Kinds, user: Users, order: Orders, battery: Batteries,
            slot: Slots] :
        j.kind \in OfOrder => /\ j.user = OwnerOf[j.order]
                              /\ j.battery = RentedIn[j.order]}

\* The transactions of two requests that a Redis lock keeps apart:
\* return:{battery}, op_order:{order}, comp:{order}, order_comp:{order} and
\* user_rent:{user}.
KeptApart(j, k) ==
    \/ {j.kind, k.kind} \subseteq {"detect", "manual"} /\ j.battery = k.battery
    \/ {j.kind, k.kind} \subseteq {"lost", "lost_closed", "damage"}
       /\ j.order = k.order
    \/ j.kind = k.kind /\ j.kind \in {"decide", "fail"} /\ j.order = k.order
    \/ {j.kind, k.kind} \subseteq {"scan", "abnormal"} /\ j.user = k.user

Init ==
    /\ job \in [Transactions -> Jobs]
    /\ \A t, u \in Transactions : t # u => ~KeptApart(job[t], job[u])
    /\ taken = [t \in Transactions |-> 0]
    /\ outcome = [t \in Transactions |-> "running"]

-----------------------------------------------------------------------------
(* Locks *)

\* Mutant of Conflict: a lock for update only keeps other ones for update out.
ConflictAlike(m, n) == m = n /\ m # "key"

\* PostgreSQL's row locks: an update lock excludes every other one, a write
\* lock all but key locks.
Conflict(m, n) == "update" \in {m, n} \/ (m = "write" /\ n = "write")

PlanOf(t) == Plan[job[t].kind]

\* The row lock n of transaction t is about.
RowOf(t, n) == <<PlanOf(t)[n].table, job[t][PlanOf(t)[n].table]>>

Running(t) == outcome[t] = "running"

\* Transaction t waits for u: u holds a lock that excludes the next one of t.
Waits(t, u) ==
    /\ t # u
    /\ Running(t) /\ taken[t] < Len(PlanOf(t))
    /\ Running(u)
    /\ LET next == taken[t] + 1
       IN  \E n \in 1..taken[u] :
              /\ RowOf(u, n) = RowOf(t, next)
              /\ Conflict(PlanOf(u)[n].mode, PlanOf(t)[next].mode)

Lock(t) ==
    /\ Running(t)
    /\ taken[t] < Len(PlanOf(t))
    /\ \A u \in Transactions : ~Waits(t, u)
    /\ taken' = [taken EXCEPT ![t] = @ + 1]
    /\ UNCHANGED <<job, outcome>>

Commit(t) ==
    /\ Running(t)
    /\ taken[t] = Len(PlanOf(t))
    /\ outcome' = [outcome EXCEPT ![t] = "committed"]
    /\ UNCHANGED <<job, taken>>

\* A set of transactions none of which can go on before another one of them.
Circle(S) == S # {} /\ \A t \in S : \E u \in S : Waits(t, u)

\* Transaction t is part of a smallest such set.
InCircle(t) ==
    \E S \in SUBSET Transactions :
        /\ t \in S
        /\ Circle(S)
        /\ \A T \in SUBSET S : Circle(T) => T = S

\* PostgreSQL finds a deadlock after deadlock_timeout, and aborts the
\* transaction that looked: any of the circle.  Its handler answers with an
\* error, whether it looks at the error or only at the commit that fails.
Abort(t) ==
    /\ InCircle(t)
    /\ outcome' = [outcome EXCEPT ![t] = "aborted"]
    /\ UNCHANGED <<job, taken>>

Ended == \A t \in Transactions : ~Running(t)

\* All have ended: nothing more happens.
Done == Ended /\ UNCHANGED vars

Step(t) == Lock(t) \/ Commit(t) \/ Abort(t)

Next == Done \/ \E t \in Transactions : Step(t)

Spec == Init /\ [][Next]_vars

-----------------------------------------------------------------------------
(* Properties *)

\* Types; and a row locked for update is locked by nobody else.
LocksTypeOK ==
    /\ job \in [Transactions -> Jobs]
    /\ taken \in [Transactions -> Nat]
    /\ \A t \in Transactions : taken[t] <= Len(PlanOf(t))
    /\ outcome \in [Transactions -> {"running", "committed", "aborted"}]
    /\ \A t, u \in Transactions :
          t # u /\ Running(t) /\ Running(u) =>
             \A n \in 1..taken[t], m \in 1..taken[u] :
                PlanOf(t)[n].mode = "update" => RowOf(u, m) # RowOf(t, n)

Same(t, u, table) == job[t][table] = job[u][table]

\* The transactions that may stop each other: t on its way against the order
\* u takes its locks in.  Late failures and disputes lock the order before
\* the user; the inventory and a failed scan the battery before the slot; and
\* what locks a slot first meets a settlement of the same user in it.
Against(t, u) ==
    LET k == job[t].kind
        l == job[u].kind
    IN  \/ /\ Same(t, u, "order")
           /\ \/ k = "dispute" /\ l \in {"detect", "manual", "decide", "compensate"}
              \/ k = "late_fail" /\ l \in {"detect", "manual", "decide",
                                          "compensate", "lost"}
        \/ /\ Same(t, u, "battery") /\ Same(t, u, "slot")
           /\ \/ k = "abnormal" /\ l \in {"scan", "assign"}
              \/ k = "battery_report" /\ l \in {"scan", "assign", "manual"}
        \/ /\ Same(t, u, "user")
           /\ \/ k = "lost" /\ l = "lost" /\ ~Same(t, u, "order")
              \/ k = "manual" /\ l \in {"detect", "abnormal"} /\ Same(t, u, "slot")
              \/ k = "scan" /\ l = "detect"
                 /\ (Same(t, u, "slot") \/ Same(t, u, "battery"))
              \/ k = "scan" /\ l = "manual" /\ Same(t, u, "battery")

\* Two transactions wait for each other only if they are among those: every
\* other pair of handlers, on the same rows or not, gets through.
OnlyTheseDeadlock ==
    \A t, u \in Transactions :
        Waits(t, u) /\ Waits(u, t) => Against(t, u) \/ Against(u, t)

\* The handlers that keep to one order of the tables: user, order, slot,
\* battery.
Orderly == {"detect", "lost_closed", "damage", "decide", "compensate", "fail",
            "credit", "slot_report", "confirm"}

\* Returns, damages, compensations, reported failures, payments and slot
\* reports never wait for each other in a circle, however many there are.
OrderlyNeverDeadlock ==
    \A S \in SUBSET Transactions :
        (\A t \in S : job[t].kind \in Orderly) => ~Circle(S)

-----------------------------------------------------------------------------
(* Claims *)

\* README: a return is settled by its lock and a status check.  It is never
\* the victim of a deadlock, which leaves its report's key behind.
ReturnsSurvive ==
    \A t \in Transactions : job[t].kind = "detect" => outcome[t] # "aborted"
=============================================================================
