CONSTANTS
    Call = {1, 2}
    Fact = {1, 2}
    Seeded = {1}
    Budgets <- CancelBudgets
SPECIFICATION Spec
CHECK_DEADLOCK FALSE
INVARIANTS
    OneWriter
