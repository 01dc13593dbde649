SPECIFICATION Spec
CONSTANTS
    Sessions = {s1, s2}
    NoSession = none
    QueueSize = 1
    MaxEvents = 3
    MaxCalls = 2
    MaxFaults = 1
INVARIANT DroppedIsRecovered
CHECK_DEADLOCK FALSE
