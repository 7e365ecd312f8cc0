SPECIFICATION FairSpec
CONSTANTS
    Callers = {a}
    Loop = recv
    Topics = {t1}
    FirstTopic = t1
    QueueCap = 1
    MaxStreams = 2
    MaxEvents = 1
    MaxCalls = 2
PROPERTIES CloseQuiet CloseReturns
CHECK_DEADLOCK FALSE
