CONSTANTS
    Slot <- MCSlot
    None <- MCNone
    Plans <- MCPlans
SPECIFICATION Spec
INVARIANTS
    TypeOK
    NoOverlap
    ReadsOwn
    BigEnough
CHECK_DEADLOCK FALSE
