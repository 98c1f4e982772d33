CONSTANTS
    Call = {1, 2}
    Fact = {1, 2}
    Seeded = {1}
    Budgets <- SafetyBudgets
SPECIFICATION Spec
CHECK_DEADLOCK FALSE
INVARIANTS
    TypeOK
    PublishedOnceAndWhole
PROPERTIES
    AckedIsPublished
    
    FailedLeavesClean
