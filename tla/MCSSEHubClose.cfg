SPECIFICATION FairSpec
CONSTANTS
    c1 = c1
    c2 = c2
    Conns <- MCOneConn
    QueueSize = 1
    ClientBuffer = 1
    MaxSnapshots = 1
    MaxLogs = 0
    MaxBeats = 0
PROPERTIES
    CloseDisconnects
CHECK_DEADLOCK FALSE
