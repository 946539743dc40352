SPECIFICATION Spec
CONSTANTS
    NULL = NULL
    Files <- MCFiles
    DecayConstOf <- MCDecayConstOf
    BranchDen = 1000
    BranchTol = 1
    Reloads = TRUE
INVARIANTS
    LoadMatchesFile
CHECK_DEADLOCK FALSE
