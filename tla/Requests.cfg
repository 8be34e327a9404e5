SPECIFICATION FairSpec
CONSTANTS
  Workers = {w1, w2}
  Messages <- MCMessages
  Files <- MCFiles
  PluginRoutes <- MCPluginRoutes
  KeepAliveMax = 2
  MaxRequests = 3
  NoMessage = NoMessage
INVARIANTS
  TypeOK
  NumbersUnique
  AnswerFits
PROPERTIES
  CloseIffAnnounced
  ConnectionEnds
CHECK_DEADLOCK FALSE
