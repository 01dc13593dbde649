SPECIFICATION Spec
CONSTANTS
    Sizes <- SomeSizes
    Texts <- SomeTexts
    MaxFiles = 3
    MaxCalls = 2
PROPERTY PoorIsCorrected
CHECK_DEADLOCK FALSE
