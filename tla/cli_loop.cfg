SPECIFICATION FairSpec
CONSTANTS
    NumProgs = 2
    MaxEdits = 1
    MaxCommands = 2
    MaxFlags = 1
CHECK_DEADLOCK FALSE
INVARIANTS
    TypeOK
    BenchRowsAreFresh
    CoverageIsOfThisRun
    ReportOfSuccess
PROPERTIES
    WatchCatchesUp
