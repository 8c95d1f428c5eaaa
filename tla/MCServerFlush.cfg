SPECIFICATION Spec
CONSTANTS
    r1 = r1
    t1 = t1
    s1 = s1
    Requests <- MCRequests
    Tailers <- MCNone
    Conns <- MCConns
    MaxCalls = 1
    BufferSize = 2
    BatchSize = 2
    QueueSize = 1
    ClientBuffer = 1
    Impatient = FALSE
INVARIANTS
    ShutdownFlushes
CHECK_DEADLOCK FALSE
