\* One fact through its three revisions, two workers, one fault.
SPECIFICATION FairSpec
CONSTANTS
    f1 = f1
    f2 = f2
    w1 = w1
    w2 = w2
    Fact = {f1}
    Worker = {w1, w2}
    NoFact = NoFact
    NoWorker = NoWorker
    MaxAttempts = 2
    MaxFaults = 1
INVARIANTS
    TypeOK
    AckedMeansIndexed
    CaughtUpIsServed
    ReplacementFirst
    OneLeasePerFact
    AttemptsBounded
PROPERTIES
    PromiseKept
    EveryEventSettles
CHECK_DEADLOCK FALSE
