SPECIFICATION Spec
CONSTANTS
    OldKeys = 1
    Unverified = {}
    MaxCalls = 1
    MaxFaults = 1
PROPERTIES CacheIsBestEffort
CHECK_DEADLOCK FALSE
