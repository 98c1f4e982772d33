\* One fact, two requests for it, two writes.  Calls are bounded: the system may stop.
CONSTANTS
    Call = {1, 2}
    Fact = {1, 2, 3}
    Seeded = {1}
    Request = {1, 2}
    Budgets <- FeedbackBudgets
SPECIFICATION FeedbackLiveSpec
INVARIANTS
    AppliedOnce
PROPERTIES
    AppliedIsPublished
    KeepsToAllowed
    EveryRequestIsAnswered
CHECK_DEADLOCK FALSE
