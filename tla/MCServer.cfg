SPECIFICATION FairSpec
CONSTANTS
    r1 = r1
    t1 = t1
    s1 = s1
    Requests <- MCRequests
    Tailers <- MCTailers
    Conns <- MCConns
    MaxCalls = 1
    BufferSize = 1
    BatchSize = 2
    QueueSize = 1
    ClientBuffer = 1
    Impatient = TRUE
ACTION_CONSTRAINT MCTwoKinds
INVARIANTS
    TypeOK
    AcknowledgedStored
PROPERTIES
    ShutdownEnds
CHECK_DEADLOCK FALSE
