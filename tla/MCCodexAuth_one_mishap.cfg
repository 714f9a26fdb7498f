\* Three requests to two routers, and one mishap: a router that dies and leaves
\* its lock file behind, an answer that is lost, or a login.
CONSTANTS
  A = A
  B = B
  q1 = q1
  q2 = q2
  q3 = q3
  Requests = {q1, q2, q3}
  Processes = {A, B}
  ProcessOf <- MCProcessOf
  StaleMs = 1
  MaxToken = 3
  MaxMishaps = 1
  Timely = TRUE
SPECIFICATION FairSpec
INVARIANTS TypeOK LockExclusive NeverSpent StoredIsUnspent
PROPERTIES  LockProgress
CHECK_DEADLOCK FALSE
