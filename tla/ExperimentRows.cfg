SPECIFICATION Spec
CONSTANTS
    Callers <- MCCallers
    EventCap = 10
    MaxFaults = 0
    MaxRuns = 2
    Experiments <- MCOneWithOda
    Concurrency = 1
    ResultCap = 10
INVARIANT PendingRowIsWritten
CHECK_DEADLOCK FALSE
