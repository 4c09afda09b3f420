SPECIFICATION FairSpec
CONSTANTS
    c1 = c1
    c2 = c2
    c3 = c3
    s1 = s1
    s2 = s2
    Clients = {c1, c2}
    Worker = Worker
    Slots = {s1}
    Capacity = 1
    NoSlot = NoSlot
    BackendErrors = {"IO"}
    CopyOutcomes = {"OK", "INVALID_ARGUMENT"}
    MaxCalls = 4
INVARIANTS
    NobodyStuck
PROPERTIES
    EverythingAnswered
    PipelineProgress
