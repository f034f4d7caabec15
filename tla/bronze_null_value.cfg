\* A message without a value against the promise that no message fails a batch.
CONSTANTS
    p1 = p1
    p2 = p2
    Partitions <- MCPartitions
    Kinds <- MCAllKinds
    MaxMessages = 2
    MaxCrashes = 1
    MaxFailures = 1
    Retention = FALSE
SPECIFICATION Spec
INVARIANT NoBatchFails
CHECK_DEADLOCK FALSE
