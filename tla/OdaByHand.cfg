SPECIFICATION FairSpec
CONSTANTS
    ByHand = TRUE
    MaxManual = 0
    MaxPeer = 0
PROPERTIES OdaStarts
CHECK_DEADLOCK FALSE
