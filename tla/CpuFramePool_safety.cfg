SPECIFICATION Spec
CONSTANTS
    t1 = t1
    t2 = t2
    t3 = t3
    Threads = {t1, t2, t3}
    Capacity = 2
    MaxCalls = 5
    MaxSubmissions = 2
SYMMETRY Symmetric
INVARIANTS
    TypeOK
    PendingKeepsSlot
    SlotAccounting
    NoLostWakeup
PROPERTIES
    RefinesLeasePool
