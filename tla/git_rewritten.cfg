CONSTANTS
    Call = {1, 2}
    Fact = {1, 2}
    Seeded = {1}
    Budgets <- CrashBudgets
SPECIFICATION Spec
CHECK_DEADLOCK FALSE
INVARIANTS
    RewriteReportIsTrue
