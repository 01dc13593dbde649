\* Seven transitions exhaust the retry budget and roll back (CAPTURED, FAILED, then
\* two retries that fail); progress may come between the first of them.
CONSTANTS
    v1 = v1
    v2 = v2
    c1 = c1
    c2 = c2
    c3 = c3
    NoCaller = NoCaller
    Sessions = {s1}
    Services = {v1, v2}
    Callers = {c1, c2, c3}
    ServiceOf <- SharedAndOwn
    MaxRevision = 7
    MaxSequence = 4
SPECIFICATION Spec
INVARIANTS
    TypeOK
    LogContiguous
    RowIsFoldOfLog
    LogIsLegalPath
    RevisionIdentifiesState
    RetriesBoundRevision
PROPERTIES
    ImplementsLifecycle
    OnlyOthersOvertake
