SPECIFICATION Spec
CONSTANTS
    Kinds = {"intel"}
    Stream <- AltrefStream
    MaxFaults = 1
    MaxCalls = 8
    AsyncDepth = 2
    PoolSize = 4
    MaxDelay = 1
INVARIANTS
    CleanEnd
