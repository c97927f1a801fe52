SPECIFICATION FairSpec
CONSTANTS
    MaxTests = 2
    StatusMod = 3
    HookResults <- MCHookResults
    MaxRegs = 4
    MaxSuites = 2
INVARIANTS
    TypeOK
    Accounting
    VerdictsAreOwn
    FailureReachesStatus
PROPERTIES
    Terminates
    LedgerSpec
