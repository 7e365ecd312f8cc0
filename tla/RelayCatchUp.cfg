SPECIFICATION Spec
CONSTANTS
    s1 = s1  s2 = s2  s3 = s3
    alice = alice  bob = bob  carol = carol
    Senders = {alice, bob, carol, anon}
    Anonymous = anon
    NoTopic = NoTopic  NoSession = NoSession
    Sessions = {s1, s2}
    Topics = {t1}
    SenderOf <- OwnSender
    Terminal <- BothKinds
    HistoryCap = 3
    QueueCap = 3
    MaxMsgs = 3
    MaxSubs = 1
    MaxRejects = 0
    MaxCrashes = 0
    MaxBreaks = 0
    RedisFaults = FALSE
    Expiry = FALSE
INVARIANT StoredAreCaughtUp
CHECK_DEADLOCK FALSE
