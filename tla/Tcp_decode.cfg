SPECIFICATION DecodeSpec
CONSTANTS
    Wires <- MCWires
    MaxPacket = 2
    MaxErrs = 1
    HandshakeCap = 2
    Causal = TRUE
    ReadAhead = 2
    MaxDecoded = 2
    MaxFlows = 3
INVARIANTS PlaintextInOrder DecryptedWhenKeyed UndecodedHonest ExchangesWhole
PROPERTIES ParsersReturn
CHECK_DEADLOCK FALSE
