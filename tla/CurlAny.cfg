CONSTANTS
  Curls = {c1, c2}
  Multis = {m1, m2}
  Requests = {r1, r2}
  Default = m1
  Nil = Nil
  MaxChunks = 1
  Disciplined = FALSE
SPECIFICATION Spec
INVARIANTS
  OwnData
PROPERTIES
  FinalizedOutside
SYMMETRY Symmetry
CHECK_DEADLOCK FALSE
