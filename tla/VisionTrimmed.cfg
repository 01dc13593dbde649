SPECIFICATION Spec
CONSTANTS
    Sizes <- SomeSizes
    Texts <- SomeTexts
    MaxFiles = 3
    MaxCalls = 2
INVARIANT TrimsNothingTechnical
CHECK_DEADLOCK FALSE
