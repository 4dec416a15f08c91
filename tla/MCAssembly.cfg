SPECIFICATION AllSpec
CONSTANTS
    OffsetModulus = 4
    HeaderLength = 1
    OverflowChecks = TRUE
    Ids = {0, 1}
    p1 = p1
    p2 = p2
    p3 = p3
    Packets <- MCPackets
    IdOf <- MCIdOf
    CutOf <- MCCutOf
    MAX_FRAGMENTS_DISTANCE = 2
    MaxFrames = 5
    Inputs <- MCInputs
    ChannelModulus = 4
    TaiOf <- MCTaiOf
    Lists <- MCLists
    Malformed <- MCMalformed
    Suppressions <- MCSuppressions
    Window = 2
    Jump = 5
    Skip = 2
    Lead = 2
    LengthModulus = 64
    TimeModulus = 32
    Limits <- MCLimits
INVARIANTS
    TypeOK
    EntriesWellFormed
    NothingLost
    PacketsKeptApart
    CompleteInputBecomesEvents
    ReturnsOnlyWholePackets
    BlocksReadBack
    PointIsWhole
    RowsInTrueOrder
