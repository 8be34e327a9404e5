SPECIFICATION Spec
CONSTANTS
  MaxLines = 7
  Workers = {w1}
  NoOne = NoOne
  ChunkFiles <- MCChunkFiles
  MaxFiles = 2
  Templates <- MCTemplates
  Headers <- MCHeaders
  LanguageOrder <- MCLanguageOrder
  Translation <- MCTranslation
  BadIds = {"_x"}
  DbRegisters = {"plug"}
  WebRegisters = {"gitid"}
  MaxPages = 1
  MaxForgets = 0
INVARIANTS
  MultiLineDefined
CHECK_DEADLOCK FALSE
