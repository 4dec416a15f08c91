SPECIFICATION FairSpec
CONSTANTS
    OffsetModulus = 4
    HeaderLength = 1
    OverflowChecks = TRUE
    pA = pA
    pB = pB
    pC = pC
    Packets <- MCPackets
    IdOf <- MCIdOf
    CutOf <- MCCutOf
    MaxRefreshes = 2
INVARIANTS
    TypeOK
    RateOfOneBatch
    PacketsCountedInTheirBatch
PROPERTIES
    NobodyWaitsForever
CHECK_DEADLOCK FALSE
