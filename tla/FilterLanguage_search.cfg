SPECIFICATION Spec
CONSTANTS
  Worlds <- FewWorlds
  Words <- MCWords
  BadWords = {"("}
  Operators = {"&"}
  Digits = {"200"}
  Quoted = {"'q'"}
  Parens = {"("}
  Assigned <- MCAssigned
INVARIANTS SearchSeesEveryState
CHECK_DEADLOCK FALSE
