SPECIFICATION ProvidersSpec
CONSTANTS
  s1 = s1
  s2 = s2
  p1 = p1
  p2 = p2
  here = here
  Ids = {s1}
  Prompts = {p1}
  Blocks = {"blank"}
  Threshold = 2
  Commands = {}
  MaxCrashes = 0
  Proper = Proper
  odd = odd
  odder = odder
  t1 = t1
  t2 = t2
  Touches = {t1, t2}
  Models = {"flash", "pro"}
  Pool <- MCPool
  Windows = {2}
  NoteWords = 5
  KeepRecent = 2
  Budgets = {0, 3}
  Target = 3
  Summaries = {1, 3}
  MaxMessages = 6
  Scripts <- MCScripts
  Inputs <- MCInputs
  Turns <- MCTurns
  Outputs <- MCOutputs
  MaxTurns = 3
  Providers = 2
  Buffer = 2
  Streams = {"a1", "a2", "b1"}
  Manager <- MCManager
  MaxTokens = 2
  MaxIndex = 2
  MaxFrames = 4
  MaxFaults = 1
CHECK_DEADLOCK FALSE
INVARIANT EveryCallGetsAResult
