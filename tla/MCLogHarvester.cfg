SPECIFICATION FairSpec
CONSTANTS
    TailLines = 1
    MaxRate = 1
    MaxPieces = 4
    MaxRotations = 2
    MaxFaults = 1
    MaxRestarts = 1
INVARIANTS
    TypeOK
    InOrder
    NothingSkipped
PROPERTIES
    CatchesUp
    TailerEnds
CHECK_DEADLOCK FALSE
