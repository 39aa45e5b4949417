CONSTANTS
    N = 4
    MaxLimit = 2
    ScanCap = 9
    DistinctKeys = TRUE
    Sessions = {"open", "closed"}
    Windowed = {"closed"}
SPECIFICATION Spec
INVARIANTS WalksAreExact PagesAreHonest
