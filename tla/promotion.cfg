SPECIFICATION LiveSpec
CONSTANTS
    f1 = f1
    c1 = c1
    c2 = c2
    None = None
    Facts = {f1}
    Calls = {c1, c2}
    MaxRequests = 3
    MaxFaults = 2
INVARIANTS OnePromotionPending UnnumberedIsUnderway OutcomeIsTrue
PROPERTIES DecisionArrives
CHECK_DEADLOCK FALSE
