SPECIFICATION Spec
VIEW View
CONSTANTS
    N = 1
    SleepTicks = 1
    ControlTicks = 1
    StreamTicks = 3
    MaxFrames = 2
    MaxResends = 1
    MaxDups = 1
    Strays = TRUE
INVARIANTS
    OkRunFinished
    AckedFramesReturned
