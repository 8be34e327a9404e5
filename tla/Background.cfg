SPECIFICATION FairSpec
CONSTANTS
  Jobs = {j1, j2, j3}
  NoJob = NoJob
  Posters = {p1}
  Delays = {0, 3}
  MinDelay = 1
  MaxDelay = 2
  MaxTodo = 1
  Signals <- MCSignals
  MaxKills = 1
  Horizon = 2
  EarlyPosts = FALSE
INVARIANTS
  TypeOK
  QueueHoldsQueuedJobs
  QueueBounded
  TimerGuardsQueue
PROPERTIES
  EarliestFirst
  NoJobAfterShutdown
  QueueSpec
  WakeupStartsAJob
  TermEndsThread
CHECK_DEADLOCK FALSE
