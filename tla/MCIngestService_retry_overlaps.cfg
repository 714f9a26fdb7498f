\* A request overlaps the repetition of itself.
CONSTANTS
  b1 = b1
  b1x = b1x
  b2 = b2
  i1 = i1
  i2 = i2
  s1 = s1
  Ids = {i1, i2}
  Sessions = {s1}
  Turns = {1, 2}
  Bodies = {b1, b1x, b2}
  BodyId <- MCBodyId
  BodySession <- MCBodySession
  BodyTurn <- MCBodyTurn
  WellFormed = {b1, b1x, b2}
  Users = {u1}
  Enrolled = {u1}
  Calls = {c1, c2}
SPECIFICATION Spec
SYMMETRY Symmetry
INVARIANT ConflictIsReal
CHECK_DEADLOCK TRUE
