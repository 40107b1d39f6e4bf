SPECIFICATION RacesSpec
CONSTANTS
    u1 = u1
    u2 = u2
    b1 = b1
    b2 = b2
    c1 = c1
    r1 = r1
    r2 = r2
    NoBattery = NoBattery
    Users = {u1}
    DepositFree = {}
    Batteries = {b1}
    Slots = {1}
    Cabinets = {c1}
    CabinetOf <- OneSlot
    Stock <- OneStocked
    Deposit = 2
    Fees = {1}
    LostFees = {3}
    DamageFees = {1}
    TopUps = {2}
    Refunds = {1}
    MaxOrders = 1
    MaxBalance = 6
    MaxFee = 2
    MaxDisputes = 1
    Requests = {r1, r2}
    Kinds = {"rent", "credit"}
    Families = {{"rent", "credit"}}
    Expiring = {}
INVARIANTS
    WalletReconciles
SYMMETRY RequestSymmetry
CHECK_DEADLOCK FALSE
