\* One router, two turns of one session and one of another.
CONSTANTS
  A = A
  B = B
  S = S
  T = T
  r1 = r1
  r2 = r2
  r3 = r3
  Records = {r1, r2, r3}
  Sessions = {S, T}
  Routers = {A}
  SessionOf <- MCSessionOf
  Owner <- MCOwner
  StaleMs = 0
  Backoff <- MCBackoff
  Limit = 3
  Concurrency = 2
  Timely = TRUE
  Lag = 0
  AgeCap = 1
  MaxCrashes = 0
  Hung = {}
  WriteErrors = FALSE
  Serial = TRUE
  Spaced = TRUE
  Refusals = FALSE
  DiskErrors = FALSE
SPECIFICATION DSpec
SYMMETRY Symmetry
INVARIANTS  NoFileForgotten UploadedWasPut LatestOnJbox
  
CHECK_DEADLOCK TRUE
