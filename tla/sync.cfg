\* Commits, faults and crashes are bounded, and a first sync over an unparsable file
\* raises each time: the system may stop.
CONSTANTS
    Fact = {1, 2}
    Path = {1, 2}
    Budgets <- SyncBudgets
SPECIFICATION LiveSpec
INVARIANTS
    IndexMatchesHead
PROPERTIES
    Converges
CHECK_DEADLOCK FALSE
