SPECIFICATION FairSpec
CONSTANTS
    Sizes <- SomeSizes
    Texts <- SomeTexts
    MaxFiles = 3
    MaxCalls = 2
INVARIANTS
    FilesInUse
    SomeoneRemoves
    PlansFit
    ReviewIsHonest
PROPERTY ReadingEnds
CHECK_DEADLOCK FALSE
