SPECIFICATION Spec
CONSTANTS
  Workers = {w1, w2}
  Closer = Closer
  None = None
  MaxRequests = 2
  OtherSerial = 1
  StatementKnown = FALSE
  DbFails = FALSE
INVARIANT CookieIdPositive
CHECK_DEADLOCK FALSE
