SPECIFICATION Spec
CONSTANTS
    Size = 3
    RegCount = 4
    Bytes <- MCBytes
    HookResults <- MCHookResults
    Rewrites <- MCRewrites
    MaxBytes = 5
    MaxRun = 4
    MaxPointer = 4
    MaxLen = 3
    MaxTransactions = 4
    MaxLoaded = 5
    MaxClocks = 5
    Pins = {p1, p2}
    EventLog = 2
    MaxWrites = 3
    BufSize = 6
    PrintfSize = 3
    MaxChars = 10
    Channels = 2
    WordBits = 2
    DefaultBits = 1
    Resolutions = {0, 3}
    MaxConversions = 2
    ChunkSize = 2
INVARIANTS
    TypeOK
    NoSilentLoss
    ReadsGiveLastSent
    NothingInvented
    OutputReadsBack
    TextIsTrace
    SweepContinues
    ShownIsWritten
PROPERTIES
    DirectionsAreQueues
