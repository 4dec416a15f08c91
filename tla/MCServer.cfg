SPECIFICATION FairSpec
CONSTANTS
    N = 2
    MaxRequests = 2
    BackupFolder = TRUE
    TicksPerSecond = 1
    AcquireTicks = 2
    LingerTicks = 1
    MaxClock = 5
INVARIANTS
    TypeOK
    CallsFollowOneAnother
    BackupHasPoint
PROPERTIES
    EveryRequestAnswered
CHECK_DEADLOCK FALSE
