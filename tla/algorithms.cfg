SPECIFICATION Spec
CONSTANTS
    Labels <- MCLabels
    Kept <- MCKept
    Cap = 2
    Outputs <- MCOutputs
    CHUNK = 2
    None = None
    Long = 3
    Widths = {2, 3}
    BufLen = 1
    MaxLen = 2
    One = 2
    MaxFloat = 5
    Names = {n1, n2}
    MaxLines = 4
    MaxSettings = 3
    Width = 5
    Left = 2
    Right = 3
    Again = 1
    Default <- MCDefault
    Fallback <- MCFallback
    Seeds <- MCSeeds
CHECK_DEADLOCK FALSE
INVARIANTS
    FilesAreCaptures
    IntegersAgree
    ArraysCompareElements
    FloatsAgree
    EntriesAreTheTests
    SettingsAreLastGiven
    NeverZero
PROPERTIES
    ComparesWithCapture
    DrawsDoNotRepeat
