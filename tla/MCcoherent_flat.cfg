SPECIFICATION Spec
CONSTANTS
    Modules <- FlatModules
    HighModules <- FlatHigh
    NumWays <- FlatWays
    NumPorts <- EqualPorts
    SlowDirectories <- SlowMainMemory
    L1Ways = 1
    L2Ways = 1
    MMWays = 2
    Ports = 1
    Addresses = {1, 2}
    Workload <- CoherentWorkload
    MaxSimultaneous = 2
    SerialDelivery = TRUE
INVARIANTS TypeOK NoPanic SingleWriter OneWayPerBlock Inclusion DirectoryCovers NoStuckAccess WitnessSeen NoLostWrite
