SPECIFICATION Spec
CONSTANTS
    u1 = u1
    u2 = u2
    b1 = b1
    b2 = b2
    c1 = c1
    c2 = c2
    NoBattery = NoBattery
    Users = {u1}
    DepositFree = {}
    Batteries = {b1}
    Slots = {1}
    Cabinets = {c1}
    CabinetOf <- OneSlot
    Stock <- OnlyStocked
    Deposit = 2
    Fees = {1, 3}
    LostFees = {1, 3}
    DamageFees = {1}
    TopUps = {2}
    Refunds = {0, 1}
    MaxOrders = 1
    MaxBalance = 4
    MaxFee = 2
    MaxDisputes = 1
PROPERTY
    DamageFeeStaysBilled
CHECK_DEADLOCK FALSE
