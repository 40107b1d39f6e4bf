SPECIFICATION Spec
CONSTANTS
    r1 = r1
    r2 = r2
    MaxSeq = 3
    Slots = {1, 2}
    Requests = {r1, r2}
    Overlap = "any"
    Faults = {}
PROPERTIES
    AppliedInOrder
SYMMETRY RequestSymmetry
CHECK_DEADLOCK FALSE
