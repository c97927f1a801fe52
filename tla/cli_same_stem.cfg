SPECIFICATION Spec
CONSTANTS
    NumTests = 2
    Jobs = 2
    Stems <- MCStems
    StemOf <- SharedStems
INVARIANTS
    EveryTestRuns
