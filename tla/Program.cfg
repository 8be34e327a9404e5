SPECIFICATION FairSpec
CONSTANTS
  MaxUnsigned = 1000
  Setups <- MCSetups
  Conns = {c1, c2, c3}
  NoConn = NoConn
  MaxThreads = 3
INVARIANTS
  TypeOK
  
  RunsAsRequested
  NoJobForgotten
PROPERTIES
  PoolSpec
  ListeningTermEnds
  EveryConnectionAnswered
CHECK_DEADLOCK FALSE
