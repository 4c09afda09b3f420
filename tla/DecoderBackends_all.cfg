SPECIFICATION Spec
CONSTANTS
    Kinds = {"vp9", "av1", "intel", "nvidia"}
    Stream <- AltrefStream
    MaxFaults = 1
    MaxCalls = 7
    AsyncDepth = 2
    PoolSize = 4
    MaxDelay = 1
INVARIANTS
    EndIsComplete
    HeldUsable
    RuntimeGone
PROPERTIES
    WouldBlockIsHelpful
