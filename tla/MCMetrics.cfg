SPECIFICATION MCSpec
CONSTANTS
    Snapshots = {a, b, c}
    Unset = Unset
    Capacity = 4
    sda = sda
    Cores = {cpu0}
    Devices = {sda, sda1}
    Host <- MCHost
    Primary = {sda}
    Interfaces = {eth0, lo}
    Loopback = {lo}
    Word = 4
    Sizes = {3}
    MaxEvents = 3
    MaxTime = 2
    MaxFaults = 1
ACTION_CONSTRAINT MCKernel
INVARIANTS
    TypeOK
    ReadsAgree
    ReadingsPublished
    RatesExact
    TotalsExact
    UsageExact
PROPERTIES
    WindowSpec
CHECK_DEADLOCK FALSE
