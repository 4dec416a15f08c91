SPECIFICATION FairSpec
CONSTANTS
    N = 2
    SleepTicks = 1
    ControlTicks = 1
    StreamTicks = 3
    MaxFrames = 0
    MaxResends = 0
    MaxDups = 0
    Strays = FALSE
PROPERTIES
    ImplementsContract
    CallsReturn
    GathersEnd
