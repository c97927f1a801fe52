SPECIFICATION Spec
CONSTANTS
    MaxTests = 2
    StatusMod = 2
    HookResults <- MCHookResults
    MaxRegs = 3
    MaxSuites = 1
INVARIANTS
    FailureReachesStatus
