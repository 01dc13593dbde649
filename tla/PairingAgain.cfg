SPECIFICATION FairSpec
CONSTANTS
    Phones = {p1}
    Digits = {d1, d2}
    MaxAttempts = 1
    MaxCodes = 3
    MaxFaults = 2
    MaxAsked = 2
INVARIANTS
    OneDevicePerCode
    GuessesAreLimited
    CredentialIsKept
PROPERTY RefusedReturns
CHECK_DEADLOCK FALSE
