SPECIFICATION FairSpec
CONSTANTS
    p1 = p1
    p2 = p2
    t1 = t1
    t2 = t2
    r1 = r1
    r2 = r2
    r3 = r3
    Free = Free
    Orphan = Orphan
    NoMsg = NoMsg
    Pays = {p1, p2}
    Unissued = {p2}
    Amount <- OneAmount
    Txns = {t1, t2}
    Messages <- AnyMessage
    Requests = {r1, r2}
    Faults = {"crash", "hangup", "db"}
    MaxDeliveries = 4
INVARIANTS
    TypeOK
    CreditedOnce
PROPERTIES
    SuccessIsFinal
    LockComesBack
CHECK_DEADLOCK FALSE
