SPECIFICATION Spec
CONSTANTS
    u1 = u1
    u2 = u2
    b1 = b1
    b2 = b2
    c1 = c1
    c2 = c2
    NoBattery = NoBattery
    Users = {u1}
    DepositFree = {}
    Batteries = {b1}
    Slots = {1}
    Cabinets = {c1}
    CabinetOf <- OneSlot
    Stock <- OnlyStocked
    Deposit = 2
    Fees = {1}
    LostFees = {3}
    DamageFees = {}
    TopUps = {2}
    Refunds = {}
    MaxOrders = 2
    MaxBalance = 4
    MaxFee = 2
    MaxDisputes = 0
INVARIANTS
    NoEndedOrderHoldsDeposit
    WalletReconciles
PROPERTIES
    DepositClosesOnce
    Refinement
CHECK_DEADLOCK FALSE
