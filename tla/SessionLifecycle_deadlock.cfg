CONSTANTS
    Worlds <- CatalogFailure
    MaxCrashes = 0
    MaxForce = 0
SPECIFICATION FairSpec
PROPERTY AnyLoopEnds
