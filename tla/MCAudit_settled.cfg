\* The staged files are deleted in the end, and audits tell the truth.
CONSTANTS
  A = A
  S = S
  r1 = r1
  r2 = r2
  Records = {r1, r2}
  Sessions = {S}
  Routers = {A}
  SessionOf <- MCSessionOf
  Owner <- MCOwner
  StaleMs = 0
  Backoff <- MCBackoff
  Limit = 3
  Concurrency = 2
  Timely = TRUE
  Lag = 0
  AgeCap = 1
  MaxCrashes = 0
  Hung = {}
  WriteErrors = FALSE
  Serial = TRUE
  Spaced = TRUE
  Refusals = TRUE
  DiskErrors = FALSE
  Audited = {S}
SPECIFICATION AFairSpec
INVARIANT CalmAuditIsExact
PROPERTY FileReclaimed
CHECK_DEADLOCK TRUE
