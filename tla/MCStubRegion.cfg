SPECIFICATION Spec
CONSTANTS
    a1 = a1
    a2 = a2
    a3 = a3
    c1 = c1
    c2 = c2
    m0 = m0
    m1 = m1
    stub = stub
    other = other
    NULL = NULL
    Agents <- MCAgents
    Contexts <- MCContexts
    Members <- MCMembers
    Default = m0
    Elements <- MCElements
    Impl = stub
SYMMETRY Symmetry
INVARIANTS
    TypeOK
PROPERTIES
    CloneIsACopy
CHECK_DEADLOCK FALSE
