SPECIFICATION Spec
CONSTANTS
    Callers <- MCCallers
    EventCap = 10
    MaxFaults = 0
    MaxRuns = 2
    Experiments <- MCTwoWithOda
    Concurrency = 1
    ResultCap = 10
INVARIANT WaitsForTearDown
CHECK_DEADLOCK FALSE
