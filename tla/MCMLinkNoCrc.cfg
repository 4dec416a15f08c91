SPECIFICATION Spec
CONSTANTS
    ValueModulus = 2
    LenModulus = 24
    MaxWords = 2
    MaxRegs = 1
    MaxCopies = 1
    Lists <- MCLists
    Inputs <- MCInputs
INVARIANTS
    ReadsWithoutCrc
