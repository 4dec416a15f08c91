SPECIFICATION Spec
VIEW View
CONSTANTS
    N = 2
    SleepTicks = 1
    ControlTicks = 1
    StreamTicks = 3
    MaxFrames = 1
    MaxResends = 0
    MaxDups = 0
    Strays = FALSE
INVARIANTS
    TypeOK
    NoControlRace
    OkRunFinished
    OkStopped
    OkLeavesBoardIdle
    OnlyOwnFrames
    AckedFramesReturned
