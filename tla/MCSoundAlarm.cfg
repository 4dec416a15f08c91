SPECIFICATION FairSpec
CONSTANTS
    Interval = 4
    Period = 3
    ConnectTicks = 1
    ReplyTicks = 2
    WriteTicks = 2
    Skew = 1
    Cap = 9
INVARIANTS
    TypeOK
    SilenceBounded
PROPERTIES
    NoFalseAlarm
    PowerFailureSounds
CHECK_DEADLOCK FALSE
