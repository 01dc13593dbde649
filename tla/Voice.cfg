SPECIFICATION FairSpec
CONSTANTS
    Words <- SomeWords
    Screens <- SomeScreens
    MaxListens = 4
INVARIANTS
    CalledOffStaysSilent
    LockIsHeld
PROPERTIES
    ConfirmedOnly
    WorkEnds
CHECK_DEADLOCK FALSE
