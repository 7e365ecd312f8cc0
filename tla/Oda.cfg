SPECIFICATION FairSpec
CONSTANTS
    ByHand = FALSE
    MaxManual = 1
    MaxPeer = 1
INVARIANTS TypeOK OneRecord CallIdKnown
PROPERTIES OdaStarts KeepsPromise FulfilsPromise
CHECK_DEADLOCK FALSE
