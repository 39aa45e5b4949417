CONSTANTS
    Flows = {f1}
    MaxReports = 2
    MaxBody = 2
    MaxFrames = 0
    WriteFailures = FALSE
SPECIFICATION Spec
INVARIANT NothingLateIsLost
