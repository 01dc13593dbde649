\* The developer saves a file while a rollback is under way.
CONSTANTS
    NoWorkspace = NoWorkspace
    NoPatch = NoPatch
    NoFile = NoFile
    Sessions = {s1}
    Requests = {r1}
    Workspaces = {w1}
    Files = {f1, f2}
    Patches = {p1}
    Edits = {e1}
    ClientTargets = {"CAPTURED", "FAILED"}
    FaultPoints = {}
    MaxFaults = 0
    MaxCrashes = 0
    MaxSwitches = 1
SYMMETRY Symmetry
SPECIFICATION Spec
PROPERTIES
    RollbackKeepsEdits
CHECK_DEADLOCK FALSE
