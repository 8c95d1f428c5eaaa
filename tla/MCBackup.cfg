SPECIFICATION Spec
CONSTANTS
    MaxCommits = 3
    Empty = Empty
    Broken = Broken
    NoLog = NoLog
    Attached = Attached
    Down = Down
INVARIANTS
    TypeOK
    Intact
PROPERTIES
    BackupCommitted
CHECK_DEADLOCK FALSE
