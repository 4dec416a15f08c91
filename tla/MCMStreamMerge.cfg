SPECIFICATION Spec
CONSTANTS
    OffsetModulus = 4
    HeaderLength = 1
    MaxFragments = 3
    Inputs <- MCInputs
INVARIANTS
    TypeOK
    ComputesMerge
    AcceptedIsGapless
    AcceptsOnlyWholePacket
    WholePacketAccepted
