\* Changes that one micro-batch collapses, against a complete history.
CONSTANTS
    k1 = k1
    k2 = k2
    v1 = v1
    v2 = v2
    NullKey = NullKey
    NoValue = NoValue
    Keys <- MCOneKey
    Values <- MCValues
    SourceOps <- MCSourceUpserts
    MalformedRows <- MCNothing
    MaxChanges = 3
    MaxReplays = 0
    MaxRedeliveries = 0
    MaxMalformed = 0
    DeleteStrategy = "soft"
    HasScd2 = TRUE
    MaxFiles = 2
    MaxCrashes = 0
SPECIFICATION Spec
INVARIANT HistoryIsComplete
CHECK_DEADLOCK FALSE
