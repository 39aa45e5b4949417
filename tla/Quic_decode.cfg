SPECIFICATION DecodeSpec
CONSTANTS
  Worlds <- AllWorlds
  Depth = 2
  MaxDup = 1
  MaxLost = 1
  Max1RTTBuffered = 3
INVARIANTS StreamsAreWhole NothingIsMissed KeylessIsAccounted SectionsCount BodiesAreWhole
CHECK_DEADLOCK FALSE
