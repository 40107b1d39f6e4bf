SPECIFICATION Spec
CONSTANTS
    Rules <- AllRules
    Step = 30
    MaxSeconds = 270000
INVARIANTS
    TypeOK
    BillIsCapped
    FirstDayIsCapped
    CapHitMeansCut
PROPERTIES
    BillGrowsWithinDay
CHECK_DEADLOCK FALSE
