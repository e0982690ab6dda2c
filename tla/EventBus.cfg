CONSTANTS
    Waiters = {w1}
    Streams = {s1}
    Events = {ok, err}
    Data = {a, b}
    MaxQueue = 2
    Timeout = 2
    MaxPublished = 3
SPECIFICATION Spec
INVARIANTS
    QueueIsNewestSuffix
    WaitForEndsInTime
PROPERTIES
    KeepsItsPromise
CHECK_DEADLOCK FALSE
