SPECIFICATION FairSpec
CONSTANTS
    s1 = s1  s2 = s2  s3 = s3
    alice = alice  bob = bob  carol = carol
    Senders = {alice, bob, carol, anon}
    Anonymous = anon
    NoTopic = NoTopic  NoSession = NoSession
    Sessions = {s1, s2}
    Topics = {t1, t2}
    SenderOf <- OwnSender
    Terminal <- PlainOnly
    HistoryCap = 1
    QueueCap = 1
    MaxMsgs = 1
    MaxSubs = 1
    MaxRejects = 1
    MaxCrashes = 0
    MaxBreaks = 1
    RedisFaults = FALSE
    Expiry = FALSE
INVARIANTS IndexConsistent NoBucketLeak ReturnedDetached
PROPERTIES BrokenGoes ReplayEnds
CHECK_DEADLOCK FALSE
