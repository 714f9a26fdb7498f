\* Two routers and every adversity: late results, crashes, disk errors.
CONSTANTS
  A = A
  B = B
  S = S
  T = T
  r1 = r1
  r2 = r2
  r3 = r3
  Records = {r1}
  Sessions = {S}
  Routers = {A, B}
  SessionOf <- MCSessionOf
  Owner <- MCOwner
  StaleMs = 0
  Backoff <- MCBackoff
  Limit = 3
  Concurrency = 2
  Timely = FALSE
  Lag = 0
  AgeCap = 1
  MaxCrashes = 1
  Hung = {}
  WriteErrors = TRUE
  Serial = FALSE
  Spaced = FALSE
  Refusals = TRUE
  DiskErrors = TRUE
SPECIFICATION DSpec
INVARIANTS DTypeOK RowsTellTheTruth
CHECK_DEADLOCK TRUE
