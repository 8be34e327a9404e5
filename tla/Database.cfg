SPECIFICATION FairSpec
CONSTANTS
  Workers = {w1, w2}
  Closer = Closer
  None = None
  MaxRequests = 4
  OtherSerial = 1
  StatementKnown = TRUE
  DbFails = TRUE
INVARIANTS
  TypeOK
  CookieIsOwnRow
  ConnectionOutlivesTransactions
  RegisteredUntilClosed
PROPERTIES
  LedgerSpec
  EveryCallEnds
CHECK_DEADLOCK FALSE
