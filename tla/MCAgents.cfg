SPECIFICATION AgentsSpec
CONSTANTS
  ann = ann
  bob = bob
  eve = eve
  here = here
  there = there
  k1 = k1
  k2 = k2
  Keys <- MCKeys
  Several = Several
  Disabled = FALSE
  RepeatNudgeAt = 0
  RepeatHaltAt = 0
  MistakeNudgeAt = 0
  MistakeHaltAt = 0
  MaxRounds = 7
  Runs <- MCRuns
  Requests <- MCRequests
  Trim <- MCTrim
  Channel <- MCChannel
  Tiers <- MCTiers
  NoClient = ""
  MaxDecisions = 2
  MaxFaults = 1
  Chats <- MCChats
  Allowed <- MCAllowed
  Acts <- MCActs
  MaxUpdates = 3
  MaxAsked = 2
  MaxMessages = 2
  MaxFailures = 1
  Configs <- MCConfigs
  Goals = {"g1", "g2"}
  Lists <- MCLists
  Whole <- MCWhole
  MaxLoops = 2
  MaxIterations = 2
  NoProgressLimit = 1
  TokenBudgets = {0, 3}
  MaxLosses = 1
  Sessions = {1}
  MaxCalls = 5
  MaxForeign = 2
  CallIds = {"read_0", "read_1"}
  MaxTurns = 2
  MaxLength = 4
  MaxAsks = 2
  MaxSwitches = 1
  Stored = {1}
  Files <- MCFiles
  Needles <- MCNeedles
  News <- MCNews
SYMMETRY Symmetry
INVARIANTS
  HaltsAreDue
  RecordsAreTrue
  ScreenIsTrue
  UpdatesAreHandledOnce
  GrantsAreHonoured
  EditsAreSound
  EditsAreInformed
  NamesAreUnambiguous
PROPERTY BlockedMeansStuck
CHECK_DEADLOCK FALSE
