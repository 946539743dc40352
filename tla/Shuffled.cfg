SPECIFICATION Spec
CONSTANTS
    p1 = p1
    p2 = p2
    d1 = d1
    d2 = d2
    Procs <- MCOne
    Dirs <- MCDirs
    cwd <- MCOneDir
    Filter <- MCEpsFilter
    Shuffle = TRUE
    MaxKills = 0
INVARIANTS
    NoTestFails
CHECK_DEADLOCK FALSE
