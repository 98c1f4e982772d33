SPECIFICATION Spec
CONSTANTS
    p1 = p1
    p2 = p2
    None = None
    Callers = {p1, p2}
    Commands <- MCCommands
    Edited <- MCEdited
    MaxCalls = 0
    MaxLost = 0
    Retention = 1
    MaxClock = 3
    MaxLines = 3
    MaxFaults = 0
PROPERTIES PreviewExpires
CHECK_DEADLOCK FALSE
