SPECIFICATION QueueFairSpec
CONSTANTS
    Players = {p1, p2}
    Instances = {n1, n2}
    SlowTick = FALSE
    MaxJoins = 2
    MaxEnqueues = 2
    MaxCrashes = 1
    Bannable = {p1}
    MaxBanFails = 1
INVARIANTS
    OneProposalPerEntry
PROPERTIES
    
    LockFreed
CHECK_DEADLOCK FALSE
