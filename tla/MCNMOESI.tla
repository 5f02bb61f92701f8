------------------------------ MODULE MCNMOESI ------------------------------
(***************************************************************************)
(* Instances of the memory hierarchy for TLC.                              *)
(***************************************************************************)
EXTENDS NMOESI

CONSTANTS L1Ways, L2Ways, MMWays, Ports

\* Two level-1 caches above a main memory.
FlatModules == {"l1a", "l1b", "mm"}
FlatHigh == [m \in FlatModules |-> IF m = "mm" THEN <<"l1a", "l1b">> ELSE <<>>]
FlatWays == [m \in FlatModules |-> IF m = "mm" THEN MMWays ELSE L1Ways]

\* Two level-1 caches above a level-2 cache above a main memory.
SharedModules == {"l1a", "l1b", "l2", "mm"}
SharedHigh ==
    [m \in SharedModules |-> CASE m = "l2" -> <<"l1a", "l1b">>
                               [] m = "mm" -> <<"l2">>
                               [] OTHER -> <<>>]
SharedWays ==
    [m \in SharedModules |-> CASE m = "mm" -> MMWays
                               [] m = "l2" -> L2Ways
                               [] OTHER -> L1Ways]

EqualPorts == [m \in Modules |-> Ports]

\* Default directory latencies: 0 in caches, 1 in main memory.
SlowMainMemory == {"mm"}

OneOf(caches, addresses, types) ==
    [module : caches, address : addresses, type : types]

\* The caches and the addresses are alike, so the first access is fixed.
CoherentWorkload ==
    <<OneOf({"l1a"}, {1}, {"load", "store"}),
      OneOf({"l1a", "l1b"}, Addresses, {"load", "store"}),
      OneOf({"l1a", "l1b"}, Addresses, {"load", "store"})>>

\* Loads, stores and non-coherent stores.
MixedWorkload ==
    <<OneOf({"l1a"}, {1}, {"load", "store", "nc_store"}),
      OneOf({"l1a", "l1b"}, Addresses, {"load", "store", "nc_store"}),
      OneOf({"l1a", "l1b"}, Addresses, {"load", "store", "nc_store"})>>

\* The second cache reads a block that the first one is writing, then another.
EvictionWorkload ==
    <<OneOf({"l1a"}, {1}, {"store"}), OneOf({"l1b"}, {1}, {"load"}),
      OneOf({"l1b"}, {2}, {"load"})>>

\* Three accesses, the last one a store of the second cache to the second address.
TripleWorkload ==
    <<OneOf({"l1a"}, {1}, {"load", "store"}),
      OneOf({"l1a", "l1b"}, Addresses, {"load", "store"}),
      OneOf({"l1b"}, {2}, {"store"})>>
=============================================================================
