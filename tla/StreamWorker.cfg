SPECIFICATION FairSpec
CONSTANTS
    Instances = {w1}
    MaxRetries = 2
    Batch = 1
    MaxLen = 1
    Malformed = {2}
    MaxId = 2
    MaxSkips = 1
    MaxCrashes = 1
INVARIANTS
    NoSilentLoss
    
PROPERTIES
    PendingDrains
