SPECIFICATION Spec
CONSTANTS
    StackSize = 3
    Values <- MCValues
    None <- MCNone
    MaxRuns = 2
INVARIANT
    UncaughtAborts
