\* Any two requests at the same time, by two enrolled users and one who is
\* not; b1x has a blob_uri that is not its own.
CONSTANTS
  b1 = b1
  b1x = b1x
  b2 = b2
  i1 = i1
  i2 = i2
  s1 = s1
  Ids = {i1, i2}
  Sessions = {s1}
  Turns = {1, 2}
  Bodies = {b1, b1x, b2}
  BodyId <- MCBodyId
  BodySession <- MCBodySession
  BodyTurn <- MCBodyTurn
  WellFormed = {b1, b2}
  Users = {u1, u2, stranger}
  Enrolled = {u1, u2}
  Calls = {c1, c2}
SPECIFICATION Spec
SYMMETRY Symmetry
INVARIANTS AckMeansStored ReplayIsAccepted ConfirmFindsAcked
 
CHECK_DEADLOCK TRUE
