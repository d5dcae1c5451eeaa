SPECIFICATION Spec
CONSTANTS
    Thread = {t1, t2}
    PageEntries = 3
    MaxPages = 2
SYMMETRY ThreadSymmetry
CONSTRAINT NotExposed
INVARIANTS
    NoDoubleAllocation
    CountExact
    NoHandleLost
