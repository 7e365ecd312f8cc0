SPECIFICATION FairSpec
CONSTANTS
    ByHand = FALSE
    MaxManual = 0
    MaxPeer = 0
INVARIANTS UnsentIsRetried
CHECK_DEADLOCK FALSE
