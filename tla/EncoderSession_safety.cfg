SPECIFICATION Spec
CONSTANTS
    c1 = c1
    c2 = c2
    c3 = c3
    s1 = s1
    s2 = s2
    Clients = {c1, c2, c3}
    Worker = Worker
    Slots = {s1, s2}
    Capacity = 2
    NoSlot = NoSlot
    BackendErrors = {"IO"}
    CopyOutcomes = {"OK", "INVALID_ARGUMENT", "throw"}
    MaxCalls = 4
SYMMETRY Symmetric
INVARIANTS
    TypeOK
    FrameExclusive
    WorkAccounted
PROPERTIES
    ResultsTruthful
    RefinesPipeline
CHECK_DEADLOCK FALSE
