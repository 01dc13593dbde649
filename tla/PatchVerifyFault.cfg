\* One read fails while the engine verifies what it has just written.
CONSTANTS
    NoWorkspace = NoWorkspace
    NoPatch = NoPatch
    NoFile = NoFile
    Sessions = {s1}
    Requests = {r1}
    Workspaces = {w1}
    Files = {f1, f2}
    Patches = {p1}
    Edits = {}
    ClientTargets = {"CAPTURED", "FAILED"}
    FaultPoints = {"verify"}
    MaxFaults = 1
    MaxCrashes = 0
    MaxSwitches = 1
SYMMETRY Symmetry
SPECIFICATION Spec
INVARIANTS
    AllOrNothing
CHECK_DEADLOCK FALSE
