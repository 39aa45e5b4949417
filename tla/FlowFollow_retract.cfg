CONSTANTS
    N = 1
    MaxVer = 2
    Buffer = 2
    Wire = 2
    Window = 2
    MaxBreaks = 0
    Worlds <- Flipping
SPECIFICATION FairSpec
PROPERTY StaleRowRetracted
