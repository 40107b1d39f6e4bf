SPECIFICATION Spec
CONSTANTS
    p1 = p1
    p2 = p2
    t1 = t1
    t2 = t2
    r1 = r1
    r2 = r2
    r3 = r3
    Free = Free
    Orphan = Orphan
    NoMsg = NoMsg
    Pays = {p1, p2}
    Unissued = {p2}
    Amount <- OneAmount
    Txns = {t1, t2}
    Messages <- AllPaid
    Requests = {r1, r2}
    Faults = {"slow"}
    MaxDeliveries = 3
INVARIANTS
    CreditedOnce
CHECK_DEADLOCK FALSE
