SPECIFICATION FairSpec
CONSTANTS
    TailLines = 1
    MaxRate = 1
    MaxPieces = 2
    MaxRotations = 1
    MaxFaults = 0
    MaxRestarts = 0
PROPERTIES
    RotationFollowed
CHECK_DEADLOCK FALSE
