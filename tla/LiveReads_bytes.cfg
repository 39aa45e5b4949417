CONSTANTS
    Flows = {f1}
    MaxReports = 2
    MaxBody = 1
    MaxFrames = 1
    WriteFailures = FALSE
    ReadCalls = {"GetBody", "GetMessage"}
    Buffer = 1
SPECIFICATION ReadSpec
INVARIANT BytesFound
