SPECIFICATION FairSpec
CONSTANTS
    Callers <- MCCallers
    EventCap = 2
    MaxFaults = 1
    MaxRuns = 2
    Experiments <- MCExperiments
    Concurrency = 1
    ResultCap = 2
INVARIANTS TypeOK Matched RowsInOrder NothingIsForgotten
PROPERTIES CommandsReturn ExperimentEnds
CHECK_DEADLOCK FALSE
