SPECIFICATION Spec
CONSTANTS
    s1 = s1  s2 = s2  s3 = s3
    alice = alice  bob = bob  carol = carol
    Senders = {s1, s2, s3, anon}
    Anonymous = anon
    NoTopic = NoTopic  NoSession = NoSession
    Sessions = {s1, s2}
    Topics = {t1}
    SenderOf <- Itself
    Terminal <- BothKinds
    HistoryCap = 1
    QueueCap = 1
    MaxMsgs = 2
    MaxSubs = 1
    MaxRejects = 0
    MaxCrashes = 0
    MaxBreaks = 1
    RedisFaults = TRUE
    Expiry = TRUE
INVARIANTS TypeOK OwnHistoryCleared PublisherOrder
SYMMETRY Interchangeable
CHECK_DEADLOCK FALSE
