SPECIFICATION Spec
CONSTANTS
    t1 = t1
    t2 = t2
    t3 = t3
    Transactions = {t1, t2}
    Kinds = {"scan", "abnormal", "detect", "manual", "lost", "lost_closed", "damage", "dispute", "decide", "compensate", "fail", "late_fail", "credit", "assign", "battery_report", "slot_report", "confirm"}
    Users = {1, 2}
    Orders = {1, 2, 3}
    Batteries = {1, 2}
    Slots = {1, 2}
    OwnerOf <- Owner
    RentedIn <- Rented
INVARIANTS
    LocksTypeOK
    OnlyTheseDeadlock
    OrderlyNeverDeadlock
SYMMETRY TransactionSymmetry
