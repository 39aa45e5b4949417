SPECIFICATION PushFairSpec
CONSTANTS
    tcp = tcp
    ws = ws
    Flows = {tcp}
    Script <- MCScript
    Transport <- MCTransport
    Claimed = {tcp}
    Cells <- MCCells
    Body <- MCBody
    MaxTrouble = 1
    None = None
    MaxInput = 1
    MaxTokens = 2
    MaxCopies = 4
    Cap = 6
    MaxBody = 1
    MaxDepth = 3
    Offsets = 2
PROPERTY HooksReturn
CHECK_DEADLOCK FALSE
