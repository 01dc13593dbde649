SPECIFICATION TimelineSpec
CONSTANTS
    Sessions = {s1, s2}
    NoSession = none
    QueueSize = 1
    MaxEvents = 3
    MaxCalls = 2
    MaxFaults = 1
    MaxFetches = 1
INVARIANT OneSessionIsShown
CHECK_DEADLOCK FALSE
