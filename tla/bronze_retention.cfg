\* Kafka's retention against the promise of no silent data loss.
CONSTANTS
    p1 = p1
    p2 = p2
    Partitions <- MCPartitions
    Kinds <- MCAllKinds
    MaxMessages = 1
    MaxCrashes = 1
    MaxFailures = 1
    Retention = TRUE
SPECIFICATION Spec
INVARIANT NoSilentLoss
CHECK_DEADLOCK FALSE
