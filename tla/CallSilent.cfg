SPECIFICATION Spec
CONSTANTS
    p = p  q = q
    Peers = {p}
    Integrated = TRUE
    Emits <- Usual
    DialModes = {TRUE}
    EventCap = 6
    MaxAttempts = 2
    MaxDials = 1
    MaxCalls = 2
    MaxIncoming = 0
PROPERTIES ClosedStaysSilent
CHECK_DEADLOCK FALSE
