SPECIFICATION FairGoals
CONSTANTS
  Goals = {"g1"}
  Lists <- MCLists
  Whole <- MCWhole
  MaxLoops = 3
  MaxIterations = 3
  NoProgressLimit = 2
  TokenBudgets = {0}
  MaxLosses = 0
PROPERTY FreshSessions
CHECK_DEADLOCK FALSE
