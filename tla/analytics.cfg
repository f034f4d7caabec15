\* The windowed metric, the late-event detector and the alerts, with restarts.
CONSTANTS
    Times <- MCTimes
    WindowSize = 2
    Delay = 1
    MaxOffsets = 2
    Snapshot <- MCSnapshot
    MaxMessages = 5
    Inventory <- MCInventory
    MaxCrashes = 1
SPECIFICATION Spec
INVARIANTS
    TypeOK
    OnTimeIsCounted
    NothingCountedTwice
    StoredIsMax
    FlaggedIsLate
    LateIsFlagged
    AppendsRepeatOnlyOnRestart
PROPERTIES
    CountsNeverShrink
    EventuallyCaughtUp
CHECK_DEADLOCK FALSE
