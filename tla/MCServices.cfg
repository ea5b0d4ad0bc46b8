SPECIFICATION ServicesSpec
CONSTANTS
  Off = Off
  Callers = {1, 2}
  Nobody = 0
  Pipe = 1
  MaxUnasked = 2
  Limits = {1, 2, 3, 4}
  MaxBytes = 8
  MaxChunk = 4
  Ids = {"r", "o"}
  Every <- MCEvery
  Fraction <- MCFraction
  Commands = {1, 2}
  MaxTime = 5
  MaxCommands = 2
  MaxCrashes = 1
INVARIANTS
  RepliesAreOwn
  SchedulesAreKept
  ResultsAreTrue
PROPERTIES
  LoopsEnd
  DueIsRun
  CallsReturn
CHECK_DEADLOCK FALSE
