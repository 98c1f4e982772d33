\* Two callers; every retry, crash and wait between them, with the fairness of the lock queues.
CONSTANTS
    Client = {c1, c2}
    Key <- MCKey
    Request <- MCRequest
SPECIFICATION LiveSpec
INVARIANTS
    TypeOK
    KeyTakesEffectOnce
    SupersededOnce
    ApprovedAsReviewed
    NoWaitCircle
PROPERTIES
    Linearizable
    EveryCallEnds
CHECK_DEADLOCK FALSE
