SPECIFICATION Spec
CONSTANTS
    p1 = p1
    p2 = p2
    d1 = d1
    d2 = d2
    Procs <- MCProcs
    Dirs <- MCDirs
    cwd <- MCOwnDir
    Filter <- MCFilter
    Shuffle = FALSE
    MaxKills = 1
INVARIANTS
    TypeOK
    NoTestFails
    TearDownCleans
CHECK_DEADLOCK FALSE
