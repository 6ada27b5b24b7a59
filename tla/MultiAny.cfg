CONSTANTS
  Multis = {m1, m2}
  Easies = {e1, e2}
  Ptrs = {p1, p2}
  Transfers = {t1, t2}
  Nil = Nil
  Notifications = TRUE
  Disciplined = FALSE
  MaxDeficit = 0
SPECIFICATION Spec
INVARIANTS
  TypeOK
  LiveHandles
  PendingIsTracked
  OwnResult
  VerdictMatchesTransfer
  MessagesDrained
PROPERTIES
  PromiseFinal
SYMMETRY Symmetry
CHECK_DEADLOCK FALSE
