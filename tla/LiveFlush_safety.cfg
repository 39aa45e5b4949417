CONSTANTS
    Flows = {f1}
    MaxReports = 3
    MaxBody = 2
    MaxFrames = 2
    WriteFailures = TRUE
SPECIFICATION FairSpec
INVARIANT TypeOK
INVARIANT NoBodyLost
INVARIANT FramesExactlyOnce
INVARIANT MergeShowsEveryFlow
PROPERTY ImplementsRecord
PROPERTY FlusherKeepsUp
