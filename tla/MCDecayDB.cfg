SPECIFICATION Spec
CONSTANTS
    NULL = NULL
    Files <- MCFiles
    DecayConstOf <- MCDecayConstOf
    BranchDen = 1000
    BranchTol = 1
    Reloads = FALSE
INVARIANTS
    TypeOK
    LoadMatchesFile
CHECK_DEADLOCK FALSE
