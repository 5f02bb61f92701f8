SPECIFICATION Spec
CONSTANTS
    Modules <- FlatModules
    HighModules <- FlatHigh
    NumWays <- FlatWays
    NumPorts <- EqualPorts
    SlowDirectories <- SlowMainMemory
    L1Ways = 1
    L2Ways = 1
    MMWays = 1
    Ports = 1
    Addresses = {1, 2}
    Workload <- MixedWorkload
    MaxSimultaneous = 1
    SerialDelivery = TRUE
INVARIANT NoStuckAccess
