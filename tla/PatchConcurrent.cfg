\* Two requests on one session, its developer editing twice, two generations (a
\* failure or a rejection leads to the second), one file-system error,
\* and another workspace selected at any point of an operation.
CONSTANTS
    NoWorkspace = NoWorkspace
    NoPatch = NoPatch
    NoFile = NoFile
    Sessions = {s1}
    Requests = {r1, r2}
    Workspaces = {w1, w2}
    Files = {f1, f2}
    Patches = {p1, p2}
    Edits = {e1, e2}
    ClientTargets = {"CAPTURED"}
    FaultPoints = {"check", "replace", "rollback_check", "rollback_replace"}
    MaxFaults = 1
    MaxCrashes = 0
    MaxSwitches = 2
SYMMETRY Symmetry
SPECIFICATION Spec
INVARIANTS
    ConsentedChangesOnly
    AllOrNothing
    TablesAgree
PROPERTIES
    NoChangeLost
CHECK_DEADLOCK FALSE
