SPECIFICATION FairSpec
CONSTANTS
    NumTests = 3
    Jobs = 2
    Stems <- MCStems
    StemOf <- DistinctStems
INVARIANTS
    TypeOK
    JobsRespected
    CloseIsSafe
    StatusIsTruthful
    EveryTestRuns
PROPERTIES
    Terminates
