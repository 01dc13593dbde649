\* Two sessions with a patch each for the same file, and a failing replacement.
\* Without symmetry, which is unsound for liveness; one file keeps the graph small.
CONSTANTS
    NoWorkspace = NoWorkspace
    NoPatch = NoPatch
    NoFile = NoFile
    Sessions = {s1, s2}
    Requests = {r1, r2}
    Workspaces = {w1}
    Files = {f1}
    Patches = {p1, p2}
    Edits = {}
    ClientTargets = {"CAPTURED"}
    FaultPoints = {"replace"}
    MaxFaults = 1
    MaxCrashes = 0
    MaxSwitches = 1
SPECIFICATION FairSpec
PROPERTIES
    NoChangeLost
    OperationsEnd
    ApprovalConcludes
CHECK_DEADLOCK FALSE
