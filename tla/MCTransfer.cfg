SPECIFICATION Spec
CONSTANTS
    a1 = a1
    a2 = a2
    a3 = a3
    kg = kg
    assembly = assembly
    NULL = NULL
    NoUnits = NoUnits
    Addrs <- MCAddrs
    Isos <- MCIsos
    Units <- MCUnits
    Recipes <- MCRecipes
    Scales <- MCScales
    Changes <- MCChanges
    Extracts <- MCExtracts
    Months <- MCMonths
    EPS = 2
    MaxID = 3
    MaxAtoms = 3
    parent_ <- MCparent
    daughters_ <- MCdaughters
    LambdaDen = 1
    BranchDen = 1
SYMMETRY Symmetry
INVARIANTS
    TypeOK
    CompLegal
    SerialsUnique
PROPERTIES
    RecipeSizeHonoured
    MassMovesWithinTolerance
CHECK_DEADLOCK FALSE
