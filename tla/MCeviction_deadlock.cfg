SPECIFICATION Spec
CONSTANTS
    Modules <- SharedModules
    HighModules <- SharedHigh
    NumWays <- SharedWays
    NumPorts <- EqualPorts
    SlowDirectories <- SlowMainMemory
    L1Ways = 1
    L2Ways = 2
    MMWays = 1
    Ports = 1
    Addresses = {1, 2}
    Workload <- EvictionWorkload
    MaxSimultaneous = 1
    SerialDelivery = TRUE
INVARIANT NoStuckAccess
