SPECIFICATION FairSpec
CONSTANTS
    Existing <- Histories
    MaxSessions = 2
    MaxActs = 2
    MaxFaults = 1
INVARIANTS
    OnePressOneSession
    BusyOnlyWhileWaiting
PROPERTIES
    DecidesWhatWasShown
    NothingIsMissed
CHECK_DEADLOCK FALSE
