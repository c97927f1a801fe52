SPECIFICATION Spec
CONSTANTS
    Capacity = 2
    a1 = a1
    a2 = a2
    Args <- MCArgs
    Rets <- MCRets
    Codes <- MCCodes
    Data <- MCData
    Zero <- MCZero
    Nothing <- MCNothing
    ResetsFirst = TRUE
    MaxRuns = 2
    MaxInvokes = 3
SYMMETRY ArgSymmetry
INVARIANTS
    TypeOK
    VerifiedMeansMatched
