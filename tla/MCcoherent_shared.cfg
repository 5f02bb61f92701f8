SPECIFICATION FairSpec
CONSTANTS
    Modules <- SharedModules
    HighModules <- SharedHigh
    NumWays <- SharedWays
    NumPorts <- EqualPorts
    SlowDirectories <- SlowMainMemory
    L1Ways = 1
    L2Ways = 1
    MMWays = 1
    Ports = 1
    Addresses = {1, 2}
    Workload <- TripleWorkload
    MaxSimultaneous = 1
    SerialDelivery = TRUE
INVARIANTS SingleWriter Inclusion
PROPERTY AccessesComplete
