--------------------------- MODULE RowLocksProofs ---------------------------
(***************************************************************************)
(* For any number of transactions, users, orders, batteries and slots: a   *)
(* row locked for update has one owner, and the orderly handlers never     *)
(* wait for each other in a circle, because each waits for a row of a      *)
(* later table than the rows others wait for it at.                        *)
(*                                                                         *)
(* Two transactions wait for each other only if they are among the pairs   *)
(* of Against: what each kind may hold when it asks for what (Hop), table  *)
(* by table, leaves those pairs, and some that cannot meet because one of  *)
(* them has locked another of the shared rows before.                      *)
(***************************************************************************)
EXTENDS RowLocks, TLAPS

Modes == {"update", "write", "key"}
Tables == {"user", "order", "slot", "battery"}

Locks == [mode : Modes, table : Tables]

LEMMA LockType ==
    /\ L("update", "user") \in Locks /\ L("update", "order") \in Locks
    /\ L("update", "slot") \in Locks /\ L("update", "battery") \in Locks
    /\ L("write", "user") \in Locks /\ L("write", "order") \in Locks
    /\ L("write", "slot") \in Locks /\ L("write", "battery") \in Locks
    /\ L("key", "user") \in Locks /\ L("key", "order") \in Locks
    /\ L("key", "slot") \in Locks /\ L("key", "battery") \in Locks
BY DEF L, Locks, Modes, Tables

\* Every plan is a sequence of locks.
LEMMA PlanType == \A kind \in Handlers : Plan[kind] \in Seq(Locks)
<1>1. /\ Plan.scan \in Seq(Locks)
      /\ Plan.abnormal \in Seq(Locks)
      /\ Plan.detect \in Seq(Locks)
      /\ Plan.manual \in Seq(Locks)
  BY LockType DEF Plan, ScanPlan, AbnormalPlan, DetectPlan, ManualPlan
<1>2. /\ Plan.lost \in Seq(Locks)
      /\ Plan.lost_closed \in Seq(Locks)
      /\ Plan.damage \in Seq(Locks)
      /\ Plan.dispute \in Seq(Locks)
  BY LockType DEF Plan, LostPlan, DamagePlan, DisputePlan
<1>3. /\ Plan.decide \in Seq(Locks)
      /\ Plan.compensate \in Seq(Locks)
      /\ Plan.fail \in Seq(Locks)
      /\ Plan.late_fail \in Seq(Locks)
      /\ Plan.credit \in Seq(Locks)
  BY LockType DEF Plan, CompensationPlan, FailPlan, LateFailPlan
<1>4. /\ Plan.assign \in Seq(Locks)
      /\ Plan.battery_report \in Seq(Locks)
      /\ Plan.slot_report \in Seq(Locks)
      /\ Plan.confirm \in Seq(Locks)
  BY LockType DEF Plan
<1>5. Handlers = {"scan", "abnormal", "detect", "manual", "lost", "lost_closed",
                  "damage", "dispute", "decide", "compensate", "fail",
                  "late_fail", "credit", "assign", "battery_report",
                  "slot_report", "confirm"}
  BY DEF Handlers, Plan
<1>. QED  BY <1>1, <1>2, <1>3, <1>4, <1>5

-----------------------------------------------------------------------------
(* Types *)

LEMMA JobKind ==
    ASSUME RowLocksAssumption, job \in [Transactions -> Jobs],
           NEW t \in Transactions
    PROVE  /\ job[t].kind \in Handlers
           /\ PlanOf(t) \in Seq(Locks)
           /\ Len(PlanOf(t)) \in Nat
<1>1. job[t].kind \in Handlers
  BY DEF RowLocksAssumption, Jobs
<1>2. PlanOf(t) \in Seq(Locks)
  BY <1>1, PlanType DEF PlanOf
<1>. QED  BY <1>1, <1>2

LEMMA InitTypes ==
    ASSUME RowLocksAssumption, Init  PROVE LocksTypeOK
<1>1. \A t \in Transactions : taken[t] = 0 /\ 0 <= Len(PlanOf(t))
  BY JobKind DEF Init
<1>2. \A t \in Transactions : 1..taken[t] = {}
  BY DEF Init
<1>. QED  BY <1>1, <1>2 DEF Init, LocksTypeOK

LEMMA LockTypes ==
    ASSUME RowLocksAssumption, LocksTypeOK, NEW t \in Transactions, Lock(t)
    PROVE  LocksTypeOK'
<1>. USE DEF LocksTypeOK
<1>1. job' = job /\ outcome' = outcome
  BY DEF Lock
<1>2. \A u \in Transactions : PlanOf(u)' = PlanOf(u)
  BY <1>1 DEF PlanOf
<1>3. \A u \in Transactions, n \in Nat : RowOf(u, n)' = RowOf(u, n)
  BY <1>1 DEF RowOf, PlanOf
<1>4. taken' \in [Transactions -> Nat]
  BY DEF Lock
<1>5. \A u \in Transactions : taken'[u] = IF u = t THEN taken[u] + 1 ELSE taken[u]
  BY DEF Lock
<1>6. \A u \in Transactions : taken'[u] <= Len(PlanOf(u))'
  <2>. SUFFICES ASSUME NEW u \in Transactions
                PROVE  taken'[u] <= Len(PlanOf(u))
    BY <1>2
  <2>. Len(PlanOf(u)) \in Nat
    BY JobKind
  <2>. QED  BY <1>5 DEF Lock
<1>7. ASSUME NEW u \in Transactions, NEW v \in Transactions, u # v,
             Running(u)', Running(v)',
             NEW n \in 1..taken'[u], NEW m \in 1..taken'[v],
             PlanOf(u)'[n].mode = "update"
      PROVE  RowOf(v, m)' # RowOf(u, n)'
  <2>. Running(u) /\ Running(v) /\ n \in Nat /\ m \in Nat
    BY <1>1, <1>7 DEF Running
  <2>. PlanOf(u)[n].mode = "update"
    BY <1>2, <1>7
  <2>. SUFFICES RowOf(v, m) # RowOf(u, n)
    BY <1>3
  <2>1. CASE n \in 1..taken[u] /\ m \in 1..taken[v]
    BY <2>1, <1>7
  <2>2. CASE n \notin 1..taken[u]
    <3>1. u = t /\ n = taken[t] + 1 /\ m \in 1..taken[v]
      BY <2>2, <1>5, <1>7
    <3>2. Conflict(PlanOf(v)[m].mode, PlanOf(t)[n].mode)
      BY <1>2, <1>7, <3>1 DEF Conflict
    <3>3. ~Waits(t, v) /\ taken[t] < Len(PlanOf(t))
      BY DEF Lock
    <3>. QED  BY <3>1, <3>2, <3>3, <1>7 DEF Waits
  <2>3. CASE m \notin 1..taken[v]
    <3>1. v = t /\ m = taken[t] + 1 /\ n \in 1..taken[u]
      BY <2>3, <1>5, <1>7
    <3>2. Conflict(PlanOf(u)[n].mode, PlanOf(t)[m].mode)
      BY <3>1 DEF Conflict
    <3>3. ~Waits(t, u) /\ taken[t] < Len(PlanOf(t))
      BY DEF Lock
    <3>. QED  BY <3>1, <3>2, <3>3, <1>7 DEF Waits
  <2>. QED  BY <2>1, <2>2, <2>3
<1>. QED  BY <1>1, <1>4, <1>6, <1>7

LEMMA EndTypes ==
    ASSUME RowLocksAssumption, LocksTypeOK, NEW t \in Transactions,
           Commit(t) \/ Abort(t)
    PROVE  LocksTypeOK'
<1>1. job' = job /\ taken' = taken
  BY DEF Commit, Abort
<1>2. \A u \in Transactions : Running(u)' => Running(u)
  BY DEF Commit, Abort, Running, LocksTypeOK
<1>3. outcome' \in [Transactions -> {"running", "committed", "aborted"}]
  BY DEF Commit, Abort, LocksTypeOK
<1>4. \A u \in Transactions :
        PlanOf(u)' = PlanOf(u) /\ \A n \in Nat : RowOf(u, n)' = RowOf(u, n)
  BY <1>1 DEF RowOf, PlanOf
<1>5. \A u, v \in Transactions :
        u # v /\ Running(u)' /\ Running(v)' =>
           \A n \in 1..taken'[u], m \in 1..taken'[v] :
              PlanOf(u)'[n].mode = "update" => RowOf(v, m)' # RowOf(u, n)'
  BY <1>1, <1>2, <1>4 DEF LocksTypeOK
<1>. QED  BY <1>1, <1>3, <1>4, <1>5 DEF LocksTypeOK

\* Types are kept, and a row locked for update is locked by nobody else.
THEOREM LocksTypeCorrect == Spec => []LocksTypeOK
<1>1. Init => LocksTypeOK
  BY InitTypes, RowLocksAssumption
<1>2. LocksTypeOK /\ [Next]_vars => LocksTypeOK'
  <2>. SUFFICES ASSUME LocksTypeOK, [Next]_vars  PROVE LocksTypeOK'
    OBVIOUS
  <2>1. CASE UNCHANGED vars
    BY <2>1 DEF vars, LocksTypeOK, RowOf, PlanOf, Running
  <2>2. CASE Done
    BY <2>1, <2>2 DEF Done
  <2>3. ASSUME NEW t \in Transactions, Step(t)  PROVE LocksTypeOK'
    BY <2>3, LockTypes, EndTypes, RowLocksAssumption DEF Step
  <2>. QED  BY <2>1, <2>2, <2>3 DEF Next
<1>. QED  BY <1>1, <1>2, PTL DEF Spec

-----------------------------------------------------------------------------
(* No circles *)

\* The order of the tables the orderly handlers keep to.
Rank(table) ==
    CASE table = "user" -> 1
      [] table = "order" -> 2
      [] table = "slot" -> 3
      [] table = "battery" -> 4

\* Locks nobody among the orderly handlers waits for: only users are locked
\* for update.
Harmless(lock) == lock.mode = "key" /\ lock.table # "user"

\* The locks of a plan are in the order of the tables, but for harmless ones,
\* and only users are locked for update.
Ordered(plan) ==
    /\ \A n, m \in 1..Len(plan) :
          n < m => Harmless(plan[n]) \/ Rank(plan[n].table) < Rank(plan[m].table)
    /\ \A n \in 1..Len(plan) : plan[n].mode = "update" => plan[n].table = "user"

LEMMA PlanOrdered == \A kind \in Orderly : Ordered(Plan[kind])
<1>. USE DEF Ordered, L, Harmless, Rank
<1>1. Ordered(Plan.detect)
  BY DEF Plan, DetectPlan
<1>2. Ordered(Plan.lost_closed)
  BY DEF Plan, LostPlan
<1>3. Ordered(Plan.damage)
  BY DEF Plan, DamagePlan
<1>4. Ordered(Plan.decide) /\ Ordered(Plan.compensate)
  BY DEF Plan, CompensationPlan
<1>5. Ordered(Plan.fail)
  BY DEF Plan, FailPlan
<1>6. Ordered(Plan.credit) /\ Ordered(Plan.slot_report) /\ Ordered(Plan.confirm)
  BY DEF Plan
<1>. HIDE DEF Ordered
<1>. QED  BY <1>1, <1>2, <1>3, <1>4, <1>5, <1>6 DEF Orderly

\* The rank of the table transaction t wants to lock a row of.
WantedRank(t) == Rank(PlanOf(t)[taken[t] + 1].table)

\* Who is waited for waits for a later table itself.
LEMMA RankGrows ==
    ASSUME RowLocksAssumption, LocksTypeOK,
           NEW t \in Transactions, NEW u \in Transactions, NEW v \in Transactions,
           job[t].kind \in Orderly, job[u].kind \in Orderly,
           Waits(t, u), Waits(u, v)
    PROVE  WantedRank(t) < WantedRank(u)
<1>. DEFINE a == taken[t] + 1
            b == taken[u] + 1
<1>1. PICK n \in 1..taken[u] :
        /\ RowOf(u, n) = RowOf(t, a)
        /\ Conflict(PlanOf(u)[n].mode, PlanOf(t)[a].mode)
  BY DEF Waits
<1>2. /\ a \in 1..Len(PlanOf(t))
      /\ b \in 1..Len(PlanOf(u))
      /\ n \in 1..Len(PlanOf(u))
      /\ n < b
  <2>1. taken[t] \in Nat /\ Len(PlanOf(t)) \in Nat /\ taken[t] < Len(PlanOf(t))
    BY JobKind DEF LocksTypeOK, Waits
  <2>2. taken[u] \in Nat /\ Len(PlanOf(u)) \in Nat /\ taken[u] < Len(PlanOf(u))
    BY JobKind DEF LocksTypeOK, Waits
  <2>. QED  BY <2>1, <2>2
<1>3. PlanOf(u)[n].table = PlanOf(t)[a].table
  BY <1>1 DEF RowOf
<1>4. ~Harmless(PlanOf(u)[n])
  <2>1. SUFFICES ASSUME Harmless(PlanOf(u)[n])  PROVE FALSE
    OBVIOUS
  <2>2. PlanOf(t)[a].mode = "update"
    BY <1>1, <2>1 DEF Conflict, Harmless
  <2>3. PlanOf(t)[a].table = "user"
    BY <1>2, <2>2, PlanOrdered DEF PlanOf, Ordered
  <2>. QED  BY <1>3, <2>1, <2>3 DEF Harmless
<1>5. Rank(PlanOf(u)[n].table) < Rank(PlanOf(u)[b].table)
  BY <1>2, <1>4, PlanOrdered DEF PlanOf, Ordered
<1>. QED  BY <1>3, <1>5 DEF WantedRank

LEMMA RankType ==
    ASSUME RowLocksAssumption, LocksTypeOK, NEW t \in Transactions,
           NEW u \in Transactions, Waits(t, u)
    PROVE  WantedRank(t) \in 1..4
<1>1. PlanOf(t)[taken[t] + 1] \in Locks
  <2>1. PlanOf(t) \in Seq(Locks)
    BY JobKind DEF LocksTypeOK
  <2>2. taken[t] + 1 \in 1..Len(PlanOf(t))
    BY JobKind DEF LocksTypeOK, Waits
  <2>. QED  BY <2>1, <2>2
<1>. QED  BY <1>1 DEF WantedRank, Rank, Locks, Tables

LEMMA NoCircle ==
    ASSUME RowLocksAssumption, LocksTypeOK  PROVE OrderlyNeverDeadlock
<1>. SUFFICES ASSUME NEW S \in SUBSET Transactions,
                     \A t \in S : job[t].kind \in Orderly,
                     Circle(S)
              PROVE  FALSE
  BY DEF OrderlyNeverDeadlock
<1>1. \A t \in S : WantedRank(t) \in 1..4
  BY RankType DEF Circle
<1>2. \A t \in S : \E u \in S : WantedRank(t) < WantedRank(u)
  BY RankGrows DEF Circle
<1>3. \A t \in S : WantedRank(t) \in 1..3
  BY <1>1, <1>2
<1>4. \A t \in S : WantedRank(t) \in 1..2
  BY <1>2, <1>3
<1>5. \A t \in S : WantedRank(t) \in 1..1
  BY <1>2, <1>4
<1>. QED  BY <1>2, <1>5 DEF Circle

\* Returns, damages, compensations, reported failures, payments and slot
\* reports never deadlock among themselves, however many run at a time.
THEOREM OrderlyHandlersGetThrough == Spec => []OrderlyNeverDeadlock
<1>1. LocksTypeOK => OrderlyNeverDeadlock
  BY NoCircle, RowLocksAssumption
<1>. QED  BY <1>1, LocksTypeCorrect, PTL

-----------------------------------------------------------------------------
(* Pairs *)

\* What handler kind may lock first (x) and later (y), table by table.
Hop(kind, x, y) ==
    LET from == x.table
        to == y.table
        Is(m, n, kinds) == x.mode \in m /\ y.mode \in n /\ kind \in kinds
    IN  \/ /\ from = "user" /\ to = "order"
           /\ \/ Is({"update"}, {"key", "write"},
                    {"detect", "manual", "decide", "compensate", "lost"})
              \/ Is({"key"}, {"write"}, {"lost", "lost_closed", "damage", "fail"})
        \/ /\ from = "order" /\ to = "user"
           /\ \/ Is({"key"}, Modes, {"lost", "lost_closed", "damage", "fail"})
              \/ Is({"update"}, {"update"}, {"dispute"})
              \/ Is({"write"}, {"key"}, {"late_fail"})
        \/ /\ from = "user" /\ to = "battery"
           /\ y.mode # "update"
           /\ \/ Is({"update"}, Modes, {"detect", "manual", "lost"})
              \/ x.mode = "key"
        \/ /\ from = "battery" /\ to = "user"
           /\ \/ Is({"update"}, {"key", "write"}, {"scan"})
              \/ Is({"key"}, {"write", "update"}, {"abnormal", "lost"})
        \/ /\ from = "user" /\ to = "slot"
           /\ \/ Is({"key"}, {"key"}, {"abnormal"})
              \/ Is({"update"}, {"key", "write"}, {"detect"})
        \/ /\ from = "slot" /\ to = "user"
           /\ \/ Is({"update"}, {"key", "write"}, {"scan"})
              \/ Is({"key"}, {"write"}, {"abnormal"})
              \/ Is({"update"}, {"update"}, {"manual"})
        \/ /\ from = "order" /\ to = "battery"
           /\ x.mode # "update"
           /\ \/ y.mode = "key"
              \/ Is(Modes, {"write"}, {"detect", "manual", "lost", "lost_closed", "damage"})
        \/ /\ from = "battery" /\ to = "order"
           /\ y.mode = "write"
           /\ \/ x.mode = "key"
              \/ Is({"write"}, {"write"}, {"manual"})
        \/ /\ from = "order" /\ to = "slot"
           /\ Is({"key", "write"}, {"key", "write"}, {"detect"})
        \/ /\ from = "slot" /\ to = "order"
           /\ Is({"update"}, {"key", "write"}, {"manual"})
        \/ /\ from = "slot" /\ to = "battery"
           /\ \/ Is({"update"}, {"update"}, {"scan", "assign"})
              \/ Is({"update"}, {"key", "write"}, {"manual"})
              \/ Is({"key"}, {"key", "write"}, {"detect"})
              \/ Is({"write"}, {"write"}, {"detect"})
              \/ Is({"write"}, {"key"}, {"slot_report"})
        \/ /\ from = "battery" /\ to = "slot"
           /\ \/ Is({"key"}, {"key"}, {"abnormal"})
              \/ Is({"key"}, {"write"}, {"detect"})
              \/ Is({"write"}, {"key"}, {"battery_report"})
        \/ /\ from = to /\ x.mode = "key"
           /\ \/ y.mode = "write"
              \/ from = "user" /\ Is({"key"}, {"update"}, {"lost"})

Hops(kind) ==
    \A n, m \in 1..Len(Plan[kind]) : n < m => Hop(kind, Plan[kind][n], Plan[kind][m])

LEMMA PlanHops == \A kind \in Handlers : Hops(kind)
<1>. USE DEF Hops, Hop, L, Modes
<1>1. Hops("scan")
  BY DEF Plan, ScanPlan
<1>2. Hops("abnormal")
  BY DEF Plan, AbnormalPlan
<1>3. Hops("detect")
  BY DEF Plan, DetectPlan
<1>4. Hops("manual")
  BY DEF Plan, ManualPlan
<1>5. Hops("lost")
  BY DEF Plan, LostPlan
<1>6. Hops("lost_closed")
  BY DEF Plan, LostPlan
<1>7. Hops("damage")
  BY DEF Plan, DamagePlan
<1>8. Hops("dispute")
  BY DEF Plan, DisputePlan
<1>9. Hops("decide")
  BY DEF Plan, CompensationPlan
<1>15. Hops("compensate")
  BY DEF Plan, CompensationPlan
<1>10. Hops("fail")
  BY DEF Plan, FailPlan
<1>11. Hops("late_fail")
  BY DEF Plan, LateFailPlan
<1>12. Hops("credit")
  BY DEF Plan
<1>13. Hops("confirm")
  BY DEF Plan
<1>16. Hops("assign")
  BY DEF Plan
<1>17. Hops("battery_report")
  BY DEF Plan
<1>18. Hops("slot_report")
  BY DEF Plan
<1>14. Handlers = {"scan", "abnormal", "detect", "manual", "lost", "lost_closed",
                   "damage", "dispute", "decide", "compensate", "fail",
                   "late_fail", "credit", "assign", "battery_report",
                   "slot_report", "confirm"}
  BY DEF Handlers, Plan
<1>. HIDE DEF Hops
<1>. QED  BY <1>1, <1>2, <1>3, <1>4, <1>5, <1>6, <1>7, <1>8, <1>9, <1>10,
             <1>11, <1>12, <1>13, <1>14, <1>15, <1>16, <1>17, <1>18

\* Who has the n-th lock of a plan had this one before.
Had(kind, n, lock) == \E m \in 1..n : Plan[kind][m] = lock

LEMMA FirstLocks ==
    ASSUME NEW kind \in Handlers, NEW n \in 1..Len(Plan[kind])
    PROVE  /\ kind \in {"lost", "lost_closed", "damage", "fail"} =>
                 /\ Had(kind, n, L("key", "order"))
                 /\ Plan[kind][n].mode # "key" =>
                       /\ Had(kind, n, L("key", "user"))
                       /\ Had(kind, n, L("key", "battery"))
           /\ kind = "dispute" => Had(kind, n, L("update", "order"))
           /\ kind = "manual" /\ Plan[kind][n].table \in {"order", "battery"} =>
                 Had(kind, n, L("update", "user"))
           /\ kind = "detect" /\ Plan[kind][n].table = "battery" =>
                 Had(kind, n, L("key", "slot"))
           /\ kind \in {"scan", "assign"} => Had(kind, n, L("update", "slot"))
<1>. USE DEF Had, L
<1>1. ASSUME kind = "lost"
      PROVE  /\ Plan[kind][1] = L("key", "order") /\ Plan[kind][2] = L("key", "user")
             /\ Plan[kind][3] = L("key", "battery")
             /\ Plan[kind][n].mode = "key" \/ n > 3
  BY <1>1 DEF Plan, LostPlan
<1>2. ASSUME kind = "lost_closed"
      PROVE  /\ Plan[kind][1] = L("key", "order") /\ Plan[kind][2] = L("key", "user")
             /\ Plan[kind][3] = L("key", "battery")
             /\ Plan[kind][n].mode = "key" \/ n > 3
  BY <1>2 DEF Plan, LostPlan
<1>3. ASSUME kind = "damage"
      PROVE  /\ Plan[kind][1] = L("key", "order") /\ Plan[kind][2] = L("key", "user")
             /\ Plan[kind][3] = L("key", "battery")
             /\ Plan[kind][n].mode = "key" \/ n > 3
  BY <1>3 DEF Plan, DamagePlan
<1>4. ASSUME kind = "fail"
      PROVE  /\ Plan[kind][1] = L("key", "order") /\ Plan[kind][2] = L("key", "user")
             /\ Plan[kind][3] = L("key", "battery")
             /\ Plan[kind][n].mode = "key" \/ n > 3
  BY <1>4 DEF Plan, FailPlan
<1>5. ASSUME kind = "dispute"
      PROVE  Plan[kind][1] = L("update", "order")
  BY <1>5 DEF Plan, DisputePlan
<1>6. ASSUME kind = "manual"
      PROVE  /\ Plan[kind][2] = L("update", "user")
             /\ Plan[kind][n].table \in {"slot", "user"} \/ n > 2
  BY <1>6 DEF Plan, ManualPlan
<1>7. ASSUME kind = "detect"
      PROVE  /\ Plan[kind][4] = L("key", "slot")
             /\ Plan[kind][n].table # "battery" \/ n > 4
  BY <1>7 DEF Plan, DetectPlan
<1>8. ASSUME kind = "scan"
      PROVE  Plan[kind][1] = L("update", "slot")
  BY <1>8 DEF Plan, ScanPlan
<1>9. ASSUME kind = "assign"
      PROVE  Plan[kind][1] = L("update", "slot")
  BY <1>9 DEF Plan
<1>10. n \in Nat /\ n >= 1
  <2>1. Len(Plan[kind]) \in Nat
    BY PlanType
  <2>. QED  BY <2>1
<1>. HIDE DEF L
<1>. QED  BY <1>1, <1>2, <1>3, <1>4, <1>5, <1>6, <1>7, <1>8, <1>9, <1>10

\* Transactions that Redis keeps apart never run at a time.
Apart == \A t, u \in Transactions : t # u => ~KeptApart(job[t], job[u])

LEMMA ApartHolds == Spec => []Apart
<1>1. Init => Apart
  BY DEF Init, Apart
<1>2. Apart /\ [Next]_vars => Apart'
  BY DEF Apart, Next, Done, Step, Lock, Commit, Abort, vars
<1>. QED  BY <1>1, <1>2, PTL DEF Spec

Holds(t, lock) == \E n \in 1..taken[t] : PlanOf(t)[n] = lock

\* Transaction t has x and wants y, u has v and wants w, and each waits for the
\* other.
Crossed(t, u, x, y, v, w) ==
    /\ t # u /\ Running(t) /\ Running(u)
    /\ Holds(t, x) /\ Holds(u, v)
    /\ Hop(job[t].kind, x, y) /\ Hop(job[u].kind, v, w)
    /\ v.table = y.table /\ Same(t, u, y.table) /\ Conflict(v.mode, y.mode)
    /\ w.table = x.table /\ Same(t, u, x.table) /\ Conflict(x.mode, w.mode)

LEMMA WaitersCross ==
    ASSUME RowLocksAssumption, LocksTypeOK,
           NEW t \in Transactions, NEW u \in Transactions,
           Waits(t, u), Waits(u, t)
    PROVE  \E x, y, v, w \in Locks : Crossed(t, u, x, y, v, w)
<1>. DEFINE a == taken[t] + 1
            b == taken[u] + 1
<1>1. PICK m \in 1..taken[u] :
        /\ RowOf(u, m) = RowOf(t, a)
        /\ Conflict(PlanOf(u)[m].mode, PlanOf(t)[a].mode)
  BY DEF Waits
<1>2. PICK n \in 1..taken[t] :
        /\ RowOf(t, n) = RowOf(u, b)
        /\ Conflict(PlanOf(t)[n].mode, PlanOf(u)[b].mode)
  BY DEF Waits
<1>3. /\ a \in 1..Len(PlanOf(t)) /\ n \in 1..Len(PlanOf(t)) /\ n < a
      /\ b \in 1..Len(PlanOf(u)) /\ m \in 1..Len(PlanOf(u)) /\ m < b
  <2>1. taken[t] \in Nat /\ Len(PlanOf(t)) \in Nat /\ taken[t] < Len(PlanOf(t))
    BY JobKind DEF LocksTypeOK, Waits
  <2>2. taken[u] \in Nat /\ Len(PlanOf(u)) \in Nat /\ taken[u] < Len(PlanOf(u))
    BY JobKind DEF LocksTypeOK, Waits
  <2>. QED  BY <2>1, <2>2
<1>4. PlanOf(t) \in Seq(Locks) /\ PlanOf(u) \in Seq(Locks)
  BY JobKind DEF LocksTypeOK
<1>5. /\ PlanOf(t)[n] \in Locks /\ PlanOf(t)[a] \in Locks
      /\ PlanOf(u)[m] \in Locks /\ PlanOf(u)[b] \in Locks
  BY <1>3, <1>4
<1>6. /\ Hop(job[t].kind, PlanOf(t)[n], PlanOf(t)[a])
      /\ Hop(job[u].kind, PlanOf(u)[m], PlanOf(u)[b])
  BY <1>3, JobKind, PlanHops DEF LocksTypeOK, Hops, PlanOf
<1>7. /\ PlanOf(u)[m].table = PlanOf(t)[a].table
      /\ Same(t, u, PlanOf(t)[a].table)
      /\ PlanOf(u)[b].table = PlanOf(t)[n].table
      /\ Same(t, u, PlanOf(t)[n].table)
  BY <1>1, <1>2 DEF RowOf, Same
<1>8. Crossed(t, u, PlanOf(t)[n], PlanOf(t)[a], PlanOf(u)[m], PlanOf(u)[b])
  BY <1>1, <1>2, <1>6, <1>7 DEF Crossed, Holds, Waits
<1>. QED  BY <1>5, <1>8

\* A row that is locked for update is locked by nobody else.
LEMMA NoClash ==
    ASSUME LocksTypeOK, RowLocksAssumption,
           NEW t \in Transactions, NEW u \in Transactions, t # u,
           Running(t), Running(u), NEW table, NEW mode, Same(t, u, table),
           Holds(t, L("update", table)), Holds(u, L(mode, table))
    PROVE  FALSE
<1>1. PICK n \in 1..taken[t] : PlanOf(t)[n] = L("update", table)
  BY DEF Holds
<1>2. PICK m \in 1..taken[u] : PlanOf(u)[m] = L(mode, table)
  BY DEF Holds
<1>3. PlanOf(t)[n].mode = "update" /\ RowOf(t, n) = RowOf(u, m)
  BY <1>1, <1>2 DEF RowOf, L, Same
<1>. QED  BY <1>3 DEF LocksTypeOK

LEMMA AlsoHolds ==
    ASSUME LocksTypeOK, RowLocksAssumption, NEW t \in Transactions,
           NEW x, Holds(t, x)
    PROVE  LET kind == job[t].kind
           IN  /\ kind \in {"lost", "lost_closed", "damage", "fail"} =>
                    /\ Holds(t, L("key", "order"))
                    /\ x.mode # "key" =>
                          Holds(t, L("key", "user")) /\ Holds(t, L("key", "battery"))
               /\ kind = "dispute" => Holds(t, L("update", "order"))
               /\ kind = "manual" /\ x.table \in {"order", "battery"} =>
                     Holds(t, L("update", "user"))
               /\ kind = "detect" /\ x.table = "battery" => Holds(t, L("key", "slot"))
               /\ kind \in {"scan", "assign"} => Holds(t, L("update", "slot"))
<1>1. PICK n \in 1..taken[t] : PlanOf(t)[n] = x
  BY DEF Holds
<1>2. /\ taken[t] \in Nat /\ Len(PlanOf(t)) \in Nat /\ taken[t] <= Len(PlanOf(t))
      /\ job[t].kind \in Handlers
  BY JobKind DEF LocksTypeOK
<1>3. n \in 1..Len(PlanOf(t))
  BY <1>2
<1>4. \A lock : Had(job[t].kind, n, lock) => Holds(t, lock)
  BY <1>2 DEF Had, Holds, PlanOf
<1>. QED  BY <1>1, <1>2, <1>3, <1>4, FirstLocks DEF PlanOf

\* The rows of an order belong to it.
LEMMA SameOrder ==
    ASSUME LocksTypeOK, NEW t \in Transactions, NEW u \in Transactions,
           Same(t, u, "order"), job[t].kind \in OfOrder, job[u].kind \in OfOrder
    PROVE  Same(t, u, "user") /\ Same(t, u, "battery")
<1>1. job[t] \in Jobs /\ job[u] \in Jobs
  BY DEF LocksTypeOK
<1>2. /\ job[t].user = OwnerOf[job[t].order] /\ job[t].battery = RentedIn[job[t].order]
      /\ job[u].user = OwnerOf[job[u].order] /\ job[u].battery = RentedIn[job[u].order]
  BY <1>1 DEF Jobs
<1>. QED  BY <1>2 DEF Same

LEMMA LockIs ==
    ASSUME NEW x \in Locks
    PROVE  x.mode \in Modes /\ x.table \in Tables /\ x = L(x.mode, x.table)
BY DEF Locks, L

\* Between users and orders: disputes and late failures lock the order first,
\* and meet what locks the user first; others have the order already when a
\* dispute comes.
LEMMA UserOrder ==
    ASSUME RowLocksAssumption, LocksTypeOK, Apart,
           NEW t \in Transactions, NEW u \in Transactions,
           NEW x \in Locks, NEW y \in Locks, NEW v \in Locks, NEW w \in Locks,
           Crossed(t, u, x, y, v, w), x.table = "user", y.table = "order"
    PROVE  Against(t, u) \/ Against(u, t)
<1>. DEFINE k == job[t].kind
            l == job[u].kind
<1>1. /\ Same(t, u, "order") /\ Hop(k, x, y) /\ Hop(l, v, w)
      /\ v.table = "order" /\ w.table = "user"
      /\ Conflict(v.mode, y.mode) /\ Conflict(x.mode, w.mode)
  BY DEF Crossed
<1>2. \/ l = "dispute" /\ k \in {"detect", "manual", "decide", "compensate"}
      \/ l = "late_fail" /\ k \in {"detect", "manual", "decide", "compensate", "lost"}
      \/ l = "dispute" /\ k \in {"lost", "lost_closed", "damage", "fail"}
  BY <1>1 DEF Hop, Conflict
<1>3. ASSUME l = "dispute", k \in {"lost", "lost_closed", "damage", "fail"}
      PROVE  FALSE
  <2>1. Holds(t, L("key", "order")) /\ Holds(u, L("update", "order"))
    BY <1>3, AlsoHolds DEF Crossed
  <2>. QED  BY <2>1, <1>1, NoClash DEF Crossed, Same
<1>. QED  BY <1>1, <1>2, <1>3 DEF Against, Same

\* Between users and batteries: a scan meets the returns; a loss has the
\* battery already.
LEMMA UserBattery ==
    ASSUME RowLocksAssumption, LocksTypeOK, Apart,
           NEW t \in Transactions, NEW u \in Transactions,
           NEW x \in Locks, NEW y \in Locks, NEW v \in Locks, NEW w \in Locks,
           Crossed(t, u, x, y, v, w), x.table = "user", y.table = "battery"
    PROVE  Against(t, u) \/ Against(u, t)
<1>. DEFINE k == job[t].kind
            l == job[u].kind
<1>1. /\ Same(t, u, "user") /\ Same(t, u, "battery") /\ Hop(k, x, y) /\ Hop(l, v, w)
      /\ v.table = "battery" /\ w.table = "user"
      /\ Conflict(v.mode, y.mode) /\ Conflict(x.mode, w.mode)
  BY DEF Crossed
<1>2. l = "scan" /\ v.mode = "update" /\ x.mode = "update"
      /\ k \in {"detect", "manual", "lost"}
  BY <1>1 DEF Hop, Conflict
<1>3. ASSUME k = "lost"  PROVE FALSE
  <2>1. Holds(t, L("key", "battery"))
    BY <1>2, <1>3, AlsoHolds DEF Crossed
  <2>2. Holds(u, L("update", "battery"))
    BY <1>1, <1>2, LockIs DEF Crossed
  <2>. QED  BY <2>1, <2>2, <1>1, NoClash DEF Crossed, Same
<1>. QED  BY <1>1, <1>2, <1>3 DEF Against, Same

\* Between users and slots: what locks the slot first.
LEMMA UserSlot ==
    ASSUME RowLocksAssumption, LocksTypeOK, Apart,
           NEW t \in Transactions, NEW u \in Transactions,
           NEW x \in Locks, NEW y \in Locks, NEW v \in Locks, NEW w \in Locks,
           Crossed(t, u, x, y, v, w), x.table = "user", y.table = "slot"
    PROVE  Against(t, u) \/ Against(u, t)
<1>. DEFINE k == job[t].kind
            l == job[u].kind
<1>1. /\ Same(t, u, "user") /\ Same(t, u, "slot") /\ Hop(k, x, y) /\ Hop(l, v, w)
      /\ v.table = "slot" /\ w.table = "user"
      /\ Conflict(v.mode, y.mode) /\ Conflict(x.mode, w.mode)
  BY DEF Crossed
<1>2. \/ l = "scan" /\ k = "detect"
      \/ l = "manual" /\ k \in {"detect", "abnormal"}
  BY <1>1 DEF Hop, Conflict
<1>. QED  BY <1>1, <1>2 DEF Against, Same

\* Between orders and batteries nobody waits in a circle: a return by hand has
\* the order's user first, and so does whom it meets.
LEMMA OrderBattery ==
    ASSUME RowLocksAssumption, LocksTypeOK, Apart,
           NEW t \in Transactions, NEW u \in Transactions,
           NEW x \in Locks, NEW y \in Locks, NEW v \in Locks, NEW w \in Locks,
           Crossed(t, u, x, y, v, w), x.table = "order", y.table = "battery"
    PROVE  Against(t, u) \/ Against(u, t)
<1>. DEFINE k == job[t].kind
            l == job[u].kind
<1>1. /\ Same(t, u, "order") /\ Hop(k, x, y) /\ Hop(l, v, w)
      /\ v.table = "battery" /\ w.table = "order"
      /\ Conflict(v.mode, y.mode) /\ Conflict(x.mode, w.mode)
  BY DEF Crossed
<1>2. /\ l = "manual" /\ x.mode = "write"
      /\ k \in {"detect", "manual", "lost", "lost_closed", "damage"}
  BY <1>1 DEF Hop, Conflict, Modes
<1>3. Same(t, u, "user") /\ Same(t, u, "battery")
  BY <1>1, <1>2, SameOrder DEF OfOrder
<1>4. ASSUME k \in {"detect", "manual"}  PROVE FALSE
  BY <1>2, <1>3, <1>4 DEF Apart, KeptApart, Crossed, Same
<1>5. ASSUME k \in {"lost", "lost_closed", "damage"}  PROVE FALSE
  <2>1. Holds(t, L("key", "user")) /\ Holds(u, L("update", "user"))
    BY <1>1, <1>2, <1>5, AlsoHolds DEF Crossed
  <2>. QED  BY <2>1, <1>3, NoClash DEF Crossed, Same
<1>. QED  BY <1>2, <1>4, <1>5

\* Between orders and slots: only the two kinds of return, which Redis keeps
\* apart.
LEMMA OrderSlot ==
    ASSUME RowLocksAssumption, LocksTypeOK, Apart,
           NEW t \in Transactions, NEW u \in Transactions,
           NEW x \in Locks, NEW y \in Locks, NEW v \in Locks, NEW w \in Locks,
           Crossed(t, u, x, y, v, w), x.table = "order", y.table = "slot"
    PROVE  Against(t, u) \/ Against(u, t)
<1>. DEFINE k == job[t].kind
            l == job[u].kind
<1>1. /\ Same(t, u, "order") /\ Hop(k, x, y) /\ Hop(l, v, w)
      /\ v.table = "slot" /\ w.table = "order"
  BY DEF Crossed
<1>2. k = "detect" /\ l = "manual"
  BY <1>1 DEF Hop
<1>3. Same(t, u, "battery")
  BY <1>1, <1>2, SameOrder DEF OfOrder
<1>. QED  BY <1>2, <1>3 DEF Apart, KeptApart, Crossed, Same

\* Between slots and batteries: failed scans and inventories have the battery
\* before the slot; a return has the slot before both.
LEMMA SlotBattery ==
    ASSUME RowLocksAssumption, LocksTypeOK, Apart,
           NEW t \in Transactions, NEW u \in Transactions,
           NEW x \in Locks, NEW y \in Locks, NEW v \in Locks, NEW w \in Locks,
           Crossed(t, u, x, y, v, w), x.table = "slot", y.table = "battery"
    PROVE  Against(t, u) \/ Against(u, t)
<1>. DEFINE k == job[t].kind
            l == job[u].kind
<1>1. /\ Same(t, u, "slot") /\ Same(t, u, "battery") /\ Hop(k, x, y) /\ Hop(l, v, w)
      /\ v.table = "battery" /\ w.table = "slot"
      /\ Conflict(v.mode, y.mode) /\ Conflict(x.mode, w.mode)
  BY DEF Crossed
<1>2. \/ l = "abnormal" /\ k \in {"scan", "assign"}
      \/ l = "battery_report" /\ k \in {"scan", "assign", "manual"}
      \/ l = "detect" /\ k \in {"scan", "assign"}
  BY <1>1 DEF Hop, Conflict
<1>3. ASSUME l = "detect", k \in {"scan", "assign"}  PROVE FALSE
  <2>1. Holds(t, L("update", "slot")) /\ Holds(u, L("key", "slot"))
    BY <1>1, <1>3, AlsoHolds DEF Crossed
  <2>. QED  BY <2>1, <1>1, NoClash DEF Crossed, Same
<1>. QED  BY <1>1, <1>2, <1>3 DEF Against, Same

\* On one row: only a loss asks for more than it has in a way that matters.
LEMMA OneRow ==
    ASSUME RowLocksAssumption, LocksTypeOK, Apart,
           NEW t \in Transactions, NEW u \in Transactions,
           NEW x \in Locks, NEW y \in Locks, NEW v \in Locks, NEW w \in Locks,
           Crossed(t, u, x, y, v, w), x.table = y.table
    PROVE  Against(t, u) \/ Against(u, t)
<1>. DEFINE k == job[t].kind
            l == job[u].kind
<1>1. /\ Same(t, u, x.table) /\ Hop(k, x, y) /\ Hop(l, v, w)
      /\ v.table = w.table /\ v.table = x.table
      /\ Conflict(v.mode, y.mode) /\ Conflict(x.mode, w.mode)
  BY DEF Crossed
<1>2. k = "lost" /\ l = "lost" /\ x.table = "user"
  BY <1>1 DEF Hop, Conflict
<1>3. ~Same(t, u, "order")
  BY <1>2 DEF Apart, KeptApart, Crossed, Same
<1>. QED  BY <1>1, <1>2, <1>3 DEF Against, Same

LEMMA CrossedIsKnown ==
    ASSUME RowLocksAssumption, LocksTypeOK, Apart,
           NEW t \in Transactions, NEW u \in Transactions,
           NEW x \in Locks, NEW y \in Locks, NEW v \in Locks, NEW w \in Locks,
           Crossed(t, u, x, y, v, w)
    PROVE  Against(t, u) \/ Against(u, t)
<1>1. Crossed(u, t, v, w, x, y)
  BY DEF Crossed, Same, Conflict
<1>2. v.table = y.table /\ w.table = x.table
  BY DEF Crossed
<1>3. x.table \in Tables /\ y.table \in Tables
  BY LockIs
<1>4. CASE x.table = y.table
  BY <1>4, OneRow
<1>5. CASE {x.table, y.table} = {"user", "order"}
  BY <1>1, <1>2, <1>5, UserOrder
<1>6. CASE {x.table, y.table} = {"user", "battery"}
  BY <1>1, <1>2, <1>6, UserBattery
<1>7. CASE {x.table, y.table} = {"user", "slot"}
  BY <1>1, <1>2, <1>7, UserSlot
<1>8. CASE {x.table, y.table} = {"order", "battery"}
  BY <1>1, <1>2, <1>8, OrderBattery
<1>9. CASE {x.table, y.table} = {"order", "slot"}
  BY <1>1, <1>2, <1>9, OrderSlot
<1>10. CASE {x.table, y.table} = {"slot", "battery"}
  BY <1>1, <1>2, <1>10, SlotBattery
<1>. QED  BY <1>3, <1>4, <1>5, <1>6, <1>7, <1>8, <1>9, <1>10 DEF Tables

\* However many transactions run, two of them wait for each other only if they
\* are among the pairs of Against: every other two handlers get through.
THEOREM OtherPairsGetThrough == Spec => []OnlyTheseDeadlock
<1>1. LocksTypeOK /\ Apart => OnlyTheseDeadlock
  BY RowLocksAssumption, WaitersCross, CrossedIsKnown DEF OnlyTheseDeadlock
<1>. QED  BY <1>1, LocksTypeCorrect, ApartHolds, PTL
=============================================================================
