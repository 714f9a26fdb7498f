\* One record and three-way overlap: batches may outlive their claims.
CONSTANTS
  Records = {r1}
  Routers = {w1, w2}
  StaleMs = 1
  Backoff <- MCShortBackoff
  Limit = 2
  Concurrency = 1
  Timely = FALSE
  Lag = 0
  AgeCap = 2
  MaxCrashes = 1
  Hung = {}
  WriteErrors = FALSE
SPECIFICATION Spec
SYMMETRY Symmetry
PROPERTY TerminalIsFinal
CHECK_DEADLOCK TRUE
