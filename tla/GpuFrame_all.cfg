SPECIFICATION FairSpec
CONSTANTS
    t1 = t1
    t2 = t2
    Threads = {t1, t2}
    NoThread = NoThread
    Capacity = 2
    AsyncDepth = 2
    MaxFrames = 3
INVARIANTS
    TypeOK
    ReturnedWhenDone
    SlotsAccounted
PROPERTIES
    CallsReturn
