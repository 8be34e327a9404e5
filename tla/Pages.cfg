SPECIFICATION Spec
CONSTANTS
  MaxLines = 7
  Workers = {w1, w2}
  NoOne = NoOne
  ChunkFiles <- MCChunkFiles
  MaxFiles = 2
  Templates <- MCTemplates
  Headers <- MCHeaders
  LanguageOrder <- MCLanguageOrder
  Translation <- MCTranslation
  BadIds = {"_x"}
  DbRegisters = {"plug", "hostname"}
  WebRegisters = {"gitid"}
  MaxPages = 2
  MaxForgets = 1
SYMMETRY MCSymmetry
INVARIANTS
  TypeOK
  PageIsItsTemplate
  RunningIsRegistered
PROPERTIES
  DefinitionsKept
CHECK_DEADLOCK FALSE
