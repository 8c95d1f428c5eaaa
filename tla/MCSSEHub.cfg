SPECIFICATION HubFairSpec
CONSTANTS
    c1 = c1
    c2 = c2
    Conns <- MCConns
    QueueSize = 2
    ClientBuffer = 1
    MaxSnapshots = 2
    MaxLogs = 1
    MaxBeats = 1
ACTION_CONSTRAINT MCFewMessages
INVARIANTS
    TypeOK
    RegistryExact
    InOrder
    NoGap
PROPERTIES
    QueueServed
    StreamsEnd
CHECK_DEADLOCK FALSE
