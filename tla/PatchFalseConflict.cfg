\* The selection moves before a rollback; nobody edits anything.
CONSTANTS
    NoWorkspace = NoWorkspace
    NoPatch = NoPatch
    NoFile = NoFile
    Sessions = {s1}
    Requests = {r1}
    Workspaces = {w1, w2}
    Files = {f1, f2}
    Patches = {p1}
    Edits = {e1}
    ClientTargets = {"CAPTURED", "FAILED"}
    FaultPoints = {}
    MaxFaults = 0
    MaxCrashes = 0
    MaxSwitches = 2
SYMMETRY Symmetry
SPECIFICATION Spec
INVARIANTS
    ConflictMeansEdit
CHECK_DEADLOCK FALSE
