SPECIFICATION FairSpec
CONSTANTS
    MaxFuel = 3
    MaxPages = 3
    NameWords = {"memory", "alloc"}
    HalfWord = 4
    InputSize = 1
CHECK_DEADLOCK FALSE
INVARIANTS
    TypeOK
    FuelIsReported
    LimitIsReported
    FilesRemoved
    MemoryReported
    CopiesInside
    PanicJustified
PROPERTIES
    RunAdvances
    RunEnds
