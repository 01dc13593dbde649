SPECIFICATION FairSpec
CONSTANTS
    Sessions = {s1, s2}
    NoSession = none
    QueueSize = 1
    MaxEvents = 3
    MaxCalls = 2
    MaxFaults = 1
INVARIANTS
    OneConnection
    InOrderOnce
    NothingSkipped
PROPERTY CatchesUp
CHECK_DEADLOCK FALSE
