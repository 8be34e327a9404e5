SPECIFICATION FairSpec
CONSTANTS
  Jobs = {j1, j2}
  NoJob = NoJob
  Posters = {p1}
  Delays = {1, 2}
  MinDelay = 1
  MaxDelay = 2
  MaxTodo = 2
  Signals = {}
  MaxKills = 1
  Horizon = 4
  EarlyPosts = FALSE
PROPERTY EveryJobRuns
CHECK_DEADLOCK FALSE
