CONSTANTS
  Multis = {m1}
  Easies = {e1, e2}
  Ptrs = {p1, p2}
  Transfers = {t1, t2}
  Nil = Nil
  Notifications = FALSE
  Disciplined = TRUE
  MaxDeficit = 0
SPECIFICATION LiveSpec
INVARIANTS
  CountExact
PROPERTIES
  EveryPromiseSettles
  ImplementsContract
