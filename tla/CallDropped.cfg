SPECIFICATION FairSpec
CONSTANTS
    p = p  q = q
    Peers = {p}
    Integrated = TRUE
    Emits <- Usual
    DialModes = {FALSE}
    EventCap = 2
    MaxAttempts = 1
    MaxDials = 1
    MaxCalls = 1
    MaxIncoming = 0
PROPERTIES CloseAlwaysReported
CHECK_DEADLOCK FALSE
