CONSTANTS
    Worlds <- Mixed
    MaxCrashes = 1
    MaxForce = 1
SPECIFICATION FairSpec
INVARIANTS DecodedOnce ClosedIsRecorded
PROPERTIES TerminalIsQuiet NobodyHangs BrokenUploadReclaimed
