SPECIFICATION PushSpec
CONSTANTS
    tcp = tcp
    ws = ws
    Flows = {tcp, ws}
    Script <- MCScript
    Transport <- MCTransport
    Claimed = {tcp, ws}
    Cells <- MCCells
    Body <- MCBody
    MaxTrouble = 1
    None = None
    MaxInput = 5
    MaxTokens = 2
    MaxCopies = 4
    Cap = 6
    MaxBody = 5
    MaxDepth = 3
    Offsets = 2
INVARIANTS PushesAreStored FramesWhole FramesAreJudged
PROPERTIES StepsKeep
CHECK_DEADLOCK FALSE
