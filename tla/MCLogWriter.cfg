SPECIFICATION FairSpec
CONSTANTS
    c1 = c1
    c2 = c2
    Callers <- MCCallers
    MaxCalls = 2
    BufferSize = 1
    BatchSize = 2
    Retention = 1
    Stamps <- MCUnset
    MaxTime = 3
    MaxFaults = 1
    MaxRestarts = 1
ACTION_CONSTRAINT MCOneShot
INVARIANTS
    TypeOK
    FIFO
    Fate
    IdOrder
    CloseDrains
PROPERTIES
    NoWriteAfterClose
    ClosingShrinks
    JournalSpec
    EntriesSettle
    WorkersStop
CHECK_DEADLOCK FALSE
