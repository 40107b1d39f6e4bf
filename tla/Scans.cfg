SPECIFICATION RacesSpec
CONSTANTS
    u1 = u1
    u2 = u2
    b1 = b1
    b2 = b2
    c1 = c1
    r1 = r1
    r2 = r2
    NoBattery = NoBattery
    Users = {u1, u2}
    DepositFree = {}
    Batteries = {b1, b2}
    Slots = {1, 2}
    Cabinets = {c1}
    CabinetOf <- TwoSlots
    Stock <- TwoStocked
    Deposit = 2
    Fees = {1}
    LostFees = {3}
    DamageFees = {1}
    TopUps = {2}
    Refunds = {1}
    MaxOrders = 3
    MaxBalance = 2
    MaxFee = 2
    MaxDisputes = 1
    Requests = {r1, r2}
    Kinds = {"rent", "abnormal", "inventory", "detect", "manual", "credit"}
    Families <- ScansOrReturns
    Expiring = {}
INVARIANTS
    WalletReconciles
    SecondRentalWasRecreated
PROPERTIES
    BatterySoldOnce
SYMMETRY RequestSymmetry
CHECK_DEADLOCK FALSE
