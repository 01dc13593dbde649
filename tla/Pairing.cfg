SPECIFICATION FairSpec
CONSTANTS
    Phones = {p1, p2}
    Digits = {d1, d2}
    MaxAttempts = 1
    MaxCodes = 2
    MaxFaults = 1
    MaxAsked = 1
INVARIANTS
    OneDevicePerCode
    GuessesAreLimited
    CredentialIsKept
PROPERTY RefusedReturns
CHECK_DEADLOCK FALSE
