SPECIFICATION Spec
CONSTANTS
    ValueModulus = 2
    LenModulus = 24
    MaxWords = 3
    MaxRegs = 3
    MaxCopies = 13
    Lists <- MCLists
    Inputs <- MCInputs
INVARIANTS
    ReadIsWritten
    OwnReadBack
