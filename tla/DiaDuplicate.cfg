SPECIFICATION Spec
CONSTANTS
    OldKeys = 1
    Unverified = {}
    MaxCalls = 1
    MaxFaults = 1
PROPERTIES DuplicatesAreNoOps
CHECK_DEADLOCK FALSE
