SPECIFICATION Spec
CONSTANTS
    Sizes <- SomeSizes
    Texts <- SomeTexts
    MaxFiles = 3
    MaxCalls = 2
INVARIANT DeletedAfterUse
CHECK_DEADLOCK FALSE
