SPECIFICATION MCSpec
CONSTANTS
    Words <- MCWords
    Entries <- MCEntries
    Containing <- MCContaining
    Levels <- MCLevels
    Searches <- MCSearches
    Filters <- MCFilters
    Limits <- MCLimits
    Retention = 1
    DefaultLimit = 2
    MaxLimit = 2
    MaxLogs = 3
    MaxTime = 3
    Fetches = {1, 2}
    MaxEntries = 2
    ViewLimit = 1
    MaxView = 3
    MaxChanges = 1
    MaxFaults = 1
INVARIANTS
    DashTypeOK
    LiveOnce
    FoundAsSent
    PagingMissesNothing
    PagedOnce
PROPERTIES
    BrowserSettles
CHECK_DEADLOCK FALSE
