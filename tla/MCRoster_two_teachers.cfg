\* Two runs at a time over rosters of one or two students; one may be killed.
CONSTANTS
  t1 = t1
  t2 = t2
  t3 = t3
  t4 = t4
  u1 = u1
  u2 = u2
  m1 = m1
  m2 = m2
  Users = {u1, u2}
  Tokens = {t1, t2, t3, t4}
  PrefixOf <- MCPrefixOf
  Admins = {a1, a2}
  Revoking = TRUE
  MaxCrashes = 1
  Rosters <- MCRosters
  Mails = {m1, m2}
  MailOf <- MCMailOf
  MaxJobs = 3
SPECIFICATION JSpec
SYMMETRY Symmetry
INVARIANTS JTypeOK  RotationKeepsAccess ResultsTrue TokensAreKnown
PROPERTY ErrorsHaveCause
CHECK_DEADLOCK FALSE
