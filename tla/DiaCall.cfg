SPECIFICATION FairSpec
CONSTANTS
    OldKeys = 1
    Unverified = {"caller"}
    MaxCalls = 2
    MaxFaults = 1
INVARIANTS GateHolds NeverStuck
PROPERTIES RingingIsDecided
CHECK_DEADLOCK FALSE
