SPECIFICATION Spec
CONSTANTS
  Ids = {"s1"}
  Prompts = {"p1", "p2"}
  Blocks = {"blank"}
  Threshold = 9
  Commands = {}
  MaxCrashes = 0
INVARIANT NewMessagesAreAll
CHECK_DEADLOCK FALSE
