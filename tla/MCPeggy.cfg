SPECIFICATION PeggySpec
CONSTANTS
  gated = gated
  ungated = ungated
  typo = typo
  Calls <- MCCalls
  Gated = {gated}
  Invalid = {typo}
  MaxCalls = 2
  MaxTurns = 2
  MaxRetries = 1
  RetryDisabled = FALSE
  AutoContinue = TRUE
  MaxAutoContinues = 1
  Modes = {TRUE, FALSE}
  Several = Several
  Disabled = FALSE
  RepeatNudgeAt = 1
  RepeatHaltAt = 2
  MistakeNudgeAt = 1
  MistakeHaltAt = 2
  a1 = a1
  a2 = a2
  k1 = k1
  p1 = p1
  p2 = p2
  p3 = p3
  Asks = {a1, a2}
  Keys = {k1}
  KeyOf <- SameKey
  Posts = {p1, p2, p3}
  Watchers = {}
  MaxLoopEvents = 0
  Daemons = {1, 2}
  Catalogs <- MCCatalogs
  Clients = {1}
  maxRecentErrors = 1
  MaxAsks = 1
  Ids = {1, 2}
  Workers = {1, 2}
  MaxSaves = 3
  Callers = {1, 2, 3}
  Process <- MCProcess
  Contents = {"a", "b"}
  Norm <- MCNorm
  Foreign <- MCForeign
  MaxOps = 4
  MaxFailures = 1
  Settings <- MCSettings
  Wires <- MCWires
  Results <- MCResults
  MaxRequests = 3
  Files <- MCFiles
INVARIANTS
  TranscriptPaired
  EffectsAccounted
  OutcomeMatchesTranscript
  EventsBalance
  DecisionsAreSound
  EventLogWellFormed
  ClientsAreToldTheTruth
  StoresAreTrue
  CallsAreSound
  SetupIsSound
  MemoriesAreSound
PROPERTIES
  RetryKeepsHistory
  GuardSpec
CHECK_DEADLOCK FALSE
