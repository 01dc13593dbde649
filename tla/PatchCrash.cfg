\* Any client may ask for any state; the process ends once at any point and any file
\* access may fail, a second failure striking the compensation of the first.
CONSTANTS
    NoWorkspace = NoWorkspace
    NoPatch = NoPatch
    NoFile = NoFile
    Sessions = {s1}
    Requests = {r1}
    Workspaces = {w1}
    Files = {f1, f2}
    Patches = {p1, p2}
    Edits = {}
    ClientTargets = {"CAPTURED", "ANALYZING", "ROOT_CAUSE_FOUND", "PATCH_GENERATED", "AWAITING_APPROVAL", "PATCH_APPLYING", "TESTING", "SUCCESS", "FAILED", "ROLLED_BACK"}
    FaultPoints = {"check", "replace", "verify", "restore", "rollback_check", "rollback_replace", "undo"}
    MaxFaults = 2
    MaxCrashes = 1
    MaxSwitches = 2
SYMMETRY Symmetry
SPECIFICATION Spec
INVARIANTS
    SnapshotBeforeWrite
    RecordNeverAhead
PROPERTIES
    ImplementsLifecycle
CHECK_DEADLOCK FALSE
