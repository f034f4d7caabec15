\* The order_items query: hard deletes, malformed rows of every kind, Debezium replays
\* and batches appended twice.
CONSTANTS
    k1 = k1
    k2 = k2
    v1 = v1
    v2 = v2
    NullKey = NullKey
    NoValue = NoValue
    Keys <- MCKeys
    Values <- MCOneValue
    SourceOps <- MCSourceAll
    MalformedRows <- MCMalformed
    MaxChanges = 2
    MaxReplays = 1
    MaxRedeliveries = 1
    MaxMalformed = 1
    DeleteStrategy = "hard"
    HasScd2 = FALSE
    MaxFiles = 2
    MaxCrashes = 1
SPECIFICATION Spec
INVARIANTS
    RowsFromSource
    DeletedStaysDeleted
    QuarantineExact
PROPERTIES
    EventuallyConsistent
CHECK_DEADLOCK FALSE
