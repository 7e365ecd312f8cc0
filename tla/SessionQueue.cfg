SPECIFICATION Spec
CONSTANTS
    Callers = {}
    Loop = recv
    Topics = {t1, t2}
    FirstTopic = t1
    QueueCap = 2
    MaxStreams = 2
    MaxEvents = 2
    MaxCalls = 3
INVARIANTS QueueOrder OneLostPerStream TopicAgreement
CHECK_DEADLOCK FALSE
