SPECIFICATION FairSpec
CONSTANTS
    p = p  q = q
    Peers = {p}
    Integrated = FALSE
    Emits <- OnlySDP
    DialModes = {FALSE}
    EventCap = 9
    MaxAttempts = 3
    MaxDials = 1
    MaxCalls = 2
    MaxIncoming = 1
PROPERTIES BaselineCallsEnd
CHECK_DEADLOCK FALSE
