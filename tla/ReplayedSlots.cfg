SPECIFICATION Spec
CONSTANTS
    r1 = r1
    r2 = r2
    MaxSeq = 2
    Slots = {1, 2}
    Requests = {r1, r2}
    Overlap = "none"
    Faults = {}
INVARIANTS
    ReplayedSlotsTakeEffect
SYMMETRY RequestSymmetry
CHECK_DEADLOCK FALSE
