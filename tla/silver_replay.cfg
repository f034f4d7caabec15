\* A replayed insert after its hard delete.
CONSTANTS
    k1 = k1
    k2 = k2
    v1 = v1
    v2 = v2
    NullKey = NullKey
    NoValue = NoValue
    Keys <- MCOneKey
    Values <- MCOneValue
    SourceOps <- MCSourceAll
    MalformedRows <- MCNothing
    MaxChanges = 2
    MaxReplays = 1
    MaxRedeliveries = 0
    MaxMalformed = 0
    DeleteStrategy = "hard"
    HasScd2 = FALSE
    MaxFiles = 2
    MaxCrashes = 0
SPECIFICATION Spec
INVARIANT ReplaysAreNoOps
CHECK_DEADLOCK FALSE
