\* Liveness when a router may hang for ever, batches outlive their claims and a
\* router may crash.
CONSTANTS
  Records = {r1}
  Routers = {w1, w2}
  StaleMs = 1
  Backoff <- MCShortBackoff
  Limit = 1
  Concurrency = 1
  Timely = FALSE
  Lag = 2
  AgeCap = 2
  MaxCrashes = 1
  Hung = {w1}
  WriteErrors = TRUE
SPECIFICATION FairSpec
INVARIANT StagesInOrder
PROPERTIES HungRowTakenOver 
CHECK_DEADLOCK TRUE
