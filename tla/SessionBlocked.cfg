SPECIFICATION FairSpec
CONSTANTS
    Callers = {}
    Loop = recv
    Topics = {t1}
    FirstTopic = t1
    QueueCap = 1
    MaxStreams = 1
    MaxEvents = 1
    MaxCalls = 3
PROPERTIES SendFailureReconnects
CHECK_DEADLOCK FALSE
