SPECIFICATION Spec
CONSTANTS
    b1 = b1
    h1 = h1
    h2 = h2
    Free = Free
    Out = Out
    Batteries = {b1}
    Slots = {1, 2}
    Stock <- FirstStocked
    Requests = {h1, h2}
    Socs = {50}
    Faults = {}
    MaxRentals = 2
    MaxManual = 1
    MaxFaults = 0
INVARIANTS
    NormalReturnsUseGoodSlots
CHECK_DEADLOCK FALSE
