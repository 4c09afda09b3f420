SPECIFICATION Spec
CONSTANTS
    t1 = t1
    t2 = t2
    t3 = t3
    Threads = {t1, t2, t3}
    Kinds <- ImageKinds
    Configs <- KindConfigs
    Capacity = 1
    MaxImages = 3
    MaxExports = 1
    MaxRefs = 2
SYMMETRY Symmetry
INVARIANTS
    SlotHeld
    OwnerReleasedOnce
    ProducerRespected
    NoLostWakeup
