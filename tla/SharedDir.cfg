SPECIFICATION Spec
CONSTANTS
    p1 = p1
    p2 = p2
    d1 = d1
    d2 = d2
    Procs <- MCProcs
    Dirs <- MCDirs
    cwd <- MCSharedDir
    Filter <- MCFilter
    Shuffle = FALSE
    MaxKills = 0
INVARIANTS
    NoTestFails
CHECK_DEADLOCK FALSE
