CONSTANTS
    N = 2
    MaxVer = 2
    Buffer = 1
    Wire = 1
    Window = 2
    MaxBreaks = 1
    Worlds <- Mixed
SPECIFICATION FairSpec
PROPERTIES Converges NothingIsSilent
