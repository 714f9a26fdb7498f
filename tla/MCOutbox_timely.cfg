\* Two routers, two records, every batch finished while its claims are fresh.
CONSTANTS
  Records = {r1, r2}
  Routers = {w1, w2}
  StaleMs = 2
  Backoff <- MCBackoff
  Limit = 2
  Concurrency = 2
  Timely = TRUE
  Lag = 0
  AgeCap = 3
  MaxCrashes = 2
  Hung = {}
  WriteErrors = TRUE
SPECIFICATION Spec
SYMMETRY Symmetry
INVARIANTS ClaimExclusive SnapshotCurrent
PROPERTY LifecycleSpec
CHECK_DEADLOCK TRUE
