SPECIFICATION Spec
CONSTANTS
    p1 = p1
    p2 = p2
    None = None
    Callers = {p1, p2}
    Commands <- MCCommands
    Edited <- MCEdited
    MaxCalls = 7
    MaxLost = 1
    Retention = 1
    MaxClock = 3
    MaxLines = 6
    MaxFaults = 1
INVARIANTS CountedAsRecorded  RawIsScheduled ListedIsClosed RatesAreRates
PROPERTIES  RawIsRedacted
CHECK_DEADLOCK FALSE
