SPECIFICATION Spec
CONSTANTS
    p = p  q = q
    Peers = {p}
    Integrated = TRUE
    Emits <- Lean
    DialModes = {FALSE}
    EventCap = 4
    MaxAttempts = 2
    MaxDials = 2
    MaxCalls = 2
    MaxIncoming = 1
INVARIANTS TypeOK ManagerConsistent Accounted NoForgottenCall
CHECK_DEADLOCK FALSE
