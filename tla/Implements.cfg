SPECIFICATION Spec
CONSTANTS
    a1 = a1
    a2 = a2
    kg = kg
    NULL = NULL
    NoUnits = NoUnits
    Addrs <- MCAddrs
    Isos <- MCIsos
    Units <- MCUnits
    Recipes <- MCRecipes
    Scales <- MCScales
    Changes <- MCChanges
    Extracts <- MCExtracts
    Months <- MCMonths
    EPS = 2
    MaxID = 2
    MaxAtoms = 4
    parent_ <- MCparent
    daughters_ <- MCdaughters
    LambdaDen = 2
    BranchDen = 1
SYMMETRY Symmetry
PROPERTIES
    ImplementsComposition
CHECK_DEADLOCK FALSE
