SPECIFICATION Spec
CONSTANTS
  Ids = {"s1"}
  Prompts = {"p1", "p2"}
  Blocks = {"blank"}
  Threshold = 9
  Commands = {"compact"}
  MaxCrashes = 0
INVARIANT CompactFreesContext
CHECK_DEADLOCK FALSE
