\* The Bronze query with crashes and retention, on two partitions.
CONSTANTS
    p1 = p1
    p2 = p2
    Partitions <- MCPartitions
    Kinds <- MCKinds
    MaxMessages = 3
    MaxCrashes = 1
    MaxFailures = 1
    Retention = TRUE
SPECIFICATION Spec
INVARIANTS
    TypeOK
    LossOnlyByRetention
    DuplicatesOnlyByRestart
    LandedInOrder
PROPERTIES
    EventuallyDelivered
CHECK_DEADLOCK FALSE
