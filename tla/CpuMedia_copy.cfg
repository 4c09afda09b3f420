SPECIFICATION Spec
CONSTANTS
    c1 = c1
    c2 = c2
    Callers = {c1, c2}
    MaxTracks = 2
    MaxLacing = 2
    Files <- MCFiles
    Sources <- MCSources
    Requests <- MCRequests
    Images <- MCImages
    Views <- MCViews
    Stripes = {2, 4, 6}
    Workers = 2
    Threshold = 4
    Heights = {2, 6}
    MaxRequest = 2
    MaxQueue = 0
SYMMETRY Symmetry
INVARIANTS PointersNotRetained
