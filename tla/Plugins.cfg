SPECIFICATION Spec
CONSTANTS
  Main = Main
  Background = Background
  Workers = {w1, w2}
  None = None
  MaxNesting = 4
  Threads <- MCThreads
  Starts <- MCStarts
  JobCalls <- MCJobCalls
  ClosureCalls <- MCClosureCalls
  InitializerCalls <- MCInitializerCalls
  OptionLists <- MCOptionLists
  Loadable <- MCLoadable
  WithDatabase <- MCWithDatabase
INVARIANTS
  NoCircularWait
  PluginsInitialized
CHECK_DEADLOCK FALSE
