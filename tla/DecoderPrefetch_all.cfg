SPECIFICATION FairSpec
CONSTANTS
    c1 = c1
    c2 = c2
    c3 = c3
    Clients = {c1, c2, c3}
    Worker = Worker
    Capacity = 2
    ReadErrors = {"CODEC"}
    MaxFrames = 3
    MaxCalls = 4
INVARIANTS
    TypeOK
    FramesKept
    BackendExclusive
    NoLostWakeup
PROPERTIES
    RefinesPipeline
    CallsReturn
