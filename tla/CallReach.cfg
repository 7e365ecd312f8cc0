SPECIFICATION Spec
CONSTANTS
    p = p  q = q
    Peers = {p}
    Integrated = TRUE
    Emits <- Usual
    DialModes = {FALSE}
    EventCap = 6
    MaxAttempts = 2
    MaxDials = 0
    MaxCalls = 1
    MaxIncoming = 1
INVARIANTS Reachable
CHECK_DEADLOCK FALSE
