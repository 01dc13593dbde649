\* A patch fails its tests and the session is retried.
CONSTANTS
    NoWorkspace = NoWorkspace
    NoPatch = NoPatch
    NoFile = NoFile
    Sessions = {s1}
    Requests = {r1}
    Workspaces = {w1}
    Files = {f1, f2}
    Patches = {p1, p2}
    Edits = {}
    ClientTargets = {"CAPTURED", "FAILED"}
    FaultPoints = {}
    MaxFaults = 0
    MaxCrashes = 0
    MaxSwitches = 1
SYMMETRY Symmetry
SPECIFICATION Spec
INVARIANTS
    RollbackStaysPossible
CHECK_DEADLOCK FALSE
