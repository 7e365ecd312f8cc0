SPECIFICATION Spec
CONSTANTS
    p = p  q = q
    Peers = {p}
    Integrated = TRUE
    Emits <- Usual
    DialModes = {FALSE}
    EventCap = 6
    MaxAttempts = 2
    MaxDials = 1
    MaxCalls = 2
    MaxIncoming = 1
INVARIANTS ClosedMeansTornDown
CHECK_DEADLOCK FALSE
