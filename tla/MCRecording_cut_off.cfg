\* Three requests of conversations that begin alike, clients that leave, a disk that
\* fails, a router that is stopped, dies and starts again.
CONSTANTS
  a = a
  b = b
  Messages = {a, b}
  MaxLen = 3
  Capacity = 2
  MaxSessions = 3
  MaxExchanges = 3
  Asked <- MCAsked
  Serial = TRUE
SPECIFICATION RFairSpec
INVARIANTS RTypeOK LaterTurnsExtend TurnsAreDistinct FileHoldsEveryTurn PendingIsExact
PROPERTIES  AllRecorded CapturesSpec
CHECK_DEADLOCK FALSE
