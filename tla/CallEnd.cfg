SPECIFICATION FairSpec
CONSTANTS
    p = p  q = q
    Peers = {p}
    Integrated = TRUE
    Emits <- Bare
    DialModes = {TRUE, FALSE}
    EventCap = 4
    MaxAttempts = 2
    MaxDials = 1
    MaxCalls = 1
    MaxIncoming = 1
PROPERTIES SessionsEnd
CHECK_DEADLOCK FALSE
