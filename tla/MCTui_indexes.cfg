SPECIFICATION TuiSpec
CONSTANTS
  CallIds = {"read_0"}
  MaxTurns = 1
  MaxLength = 5
  MaxAsks = 1
  MaxSwitches = 1
  Stored = {1}
INVARIANT IndexesAreOfStreamingItems
CHECK_DEADLOCK FALSE
