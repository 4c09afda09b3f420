SPECIFICATION Spec
CONSTANTS
    Kinds = {"av1", "vp9", "intel", "nvidia"}
    MaxPts = 1
    MaxFrames = 2
    MaxCalls = 4
    AsyncDepth = 2
    MaxImports = 1
    MaxHeld = 1
    External = {2}
INVARIANTS
    NothingLostSilently
    AutoPtsFresh
    SurfacesHeld
PROPERTIES
    SequenceRules
