CONSTANTS
    N = 3
    MaxLimit = 2
    ScanCap = 9
    DistinctKeys = TRUE
    Sessions = {"open"}
    Windowed = {}
SPECIFICATION Spec
INVARIANT BackWalkIsExact
