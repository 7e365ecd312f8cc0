SPECIFICATION Spec
CONSTANTS
    Callers = {a}
    Loop = recv
    Topics = {t1, t2}
    FirstTopic = t1
    QueueCap = 1
    MaxStreams = 2
    MaxEvents = 1
    MaxCalls = 2
INVARIANTS NoSendOnClosed
CHECK_DEADLOCK FALSE
