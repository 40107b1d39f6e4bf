SPECIFICATION Spec
CONSTANTS
    b1 = b1
    h1 = h1
    h2 = h2
    Free = Free
    Out = Out
    Batteries = {b1}
    Slots = {1, 2}
    Stock <- FirstStocked
    Requests = {h1, h2}
    Socs = {5, 50}
    Faults = {"judge"}
    MaxRentals = 2
    MaxManual = 1
    MaxFaults = 1
INVARIANTS
    OnlyChargeIsSuspect
CHECK_DEADLOCK FALSE
