SPECIFICATION Spec
CONSTANTS
    StackSize = 3
    Values <- MCValues
    None <- MCNone
    MaxRuns = 3
INVARIANTS
    TypeOK
    OwnFramesOnTop
PROPERTIES
    LexicalSpec
