SPECIFICATION Spec
CONSTANTS
  Worlds <- AllWorlds
  Words <- MCWords
  BadWords = {"("}
  Operators = {"&"}
  Digits = {"200"}
  Quoted = {"'q'"}
  Parens = {"("}
  Assigned <- MCAssigned
INVARIANTS ExpressionIsMeant FoundOrCounted
CHECK_DEADLOCK FALSE
