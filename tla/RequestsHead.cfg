SPECIFICATION Spec
CONSTANTS
  Workers = {w1, w2}
  Messages <- MCMessages
  Files <- MCFiles
  PluginRoutes <- MCPluginRoutes
  KeepAliveMax = 2
  MaxRequests = 3
  NoMessage = NoMessage
INVARIANT
  OnlyGetReachesViews
CHECK_DEADLOCK FALSE
