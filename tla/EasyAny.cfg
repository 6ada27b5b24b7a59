CONSTANTS
  Easies = {e1, e2, e3}
  ToFrees = {f1, f2, f3}
  Lists = {l1, l2}
  Mimes = {m1, m2}
  Shares = {s1}
  Nil = Nil
  Disciplined = TRUE
SPECIFICATION Spec
SYMMETRY Symmetry
INVARIANTS
  OptionsAlive
  FreedOnce
  NothingLeaks
CHECK_DEADLOCK FALSE
