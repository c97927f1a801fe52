SPECIFICATION Spec
CONSTANTS
    MaxTests = 2
    StatusMod = 3
    HookResults <- MCHookResults
    MaxRegs = 4
    MaxSuites = 1
INVARIANTS
    NoTestLost
