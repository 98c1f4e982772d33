\* One fact through its three revisions, two workers, one fault.
SPECIFICATION Spec
CONSTANTS
    f1 = f1
    f2 = f2
    w1 = w1
    w2 = w2
    Fact = {f1}
    Worker = {w1, w2}
    NoFact = NoFact
    NoWorker = NoWorker
    MaxAttempts = 1
    MaxFaults = 1
SYMMETRY WorkerSymmetry
INVARIANT AttemptsWithinMax
CHECK_DEADLOCK FALSE
