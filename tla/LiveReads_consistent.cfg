CONSTANTS
    Flows = {f1}
    MaxReports = 1
    MaxBody = 1
    MaxFrames = 3
    WriteFailures = TRUE
    ReadCalls = {"GetFlow", "StreamMessages"}
    Buffer = 1
SPECIFICATION ReadSpec
INVARIANTS FlowFound TimelineIsFaithful
