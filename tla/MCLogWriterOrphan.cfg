SPECIFICATION Spec
CONSTANTS
    c1 = c1
    c2 = c2
    Callers <- MCCallers
    MaxCalls = 1
    BufferSize = 2
    BatchSize = 2
    Retention = 1
    Stamps <- MCUnset
    MaxTime = 1
    MaxFaults = 0
    MaxRestarts = 0
INVARIANT
    NoOrphan
CHECK_DEADLOCK FALSE
