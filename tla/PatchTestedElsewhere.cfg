\* The selection moves while a patch is applied.
CONSTANTS
    NoWorkspace = NoWorkspace
    NoPatch = NoPatch
    NoFile = NoFile
    Sessions = {s1}
    Requests = {r1}
    Workspaces = {w1, w2}
    Files = {f1, f2}
    Patches = {p1}
    Edits = {}
    ClientTargets = {"CAPTURED", "FAILED"}
    FaultPoints = {}
    MaxFaults = 0
    MaxCrashes = 0
    MaxSwitches = 2
SYMMETRY Symmetry
SPECIFICATION Spec
INVARIANTS
    TestedWherePatched
CHECK_DEADLOCK FALSE
