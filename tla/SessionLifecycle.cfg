\* Two sessions; the retry budget itself bounds the state space.
CONSTANT Sessions = {s1, s2}
SPECIFICATION Spec
INVARIANTS
    TypeOK
    Progress
    RevisionBound
CHECK_DEADLOCK FALSE
