SPECIFICATION Spec
CONSTANTS
    Words <- SomeWords
    Screens <- SomeScreens
    MaxListens = 3
PROPERTY CloseInvalidates
CHECK_DEADLOCK FALSE
