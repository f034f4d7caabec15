\* The customers query: soft deletes that never come, and the SCD2 dimension.
CONSTANTS
    k1 = k1
    k2 = k2
    v1 = v1
    v2 = v2
    NullKey = NullKey
    NoValue = NoValue
    Keys <- MCKeys
    Values <- MCValues
    SourceOps <- MCSourceUpserts
    MalformedRows <- MCNothing
    MaxChanges = 3
    MaxReplays = 1
    MaxRedeliveries = 0
    MaxMalformed = 0
    DeleteStrategy = "soft"
    HasScd2 = TRUE
    MaxFiles = 2
    MaxCrashes = 1
SPECIFICATION Spec
INVARIANTS
    TypeOK
    RowsFromSource
    NoLostUpdate
    HistoryChain
    HistoryAgrees
PROPERTIES
    ImplementsCurrentState
    EventuallyConsistent
CHECK_DEADLOCK FALSE
