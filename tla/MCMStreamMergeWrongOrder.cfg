SPECIFICATION Spec
CONSTANTS
    OffsetModulus = 4
    HeaderLength = 1
    MaxFragments = 2
    Inputs <- MCInputs
INVARIANTS
    WrongOrderMerges
