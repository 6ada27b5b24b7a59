CONSTANTS
  Curls = {c1, c2}
  Multis = {m1}
  Requests = {r1, r2}
  Default = m1
  Nil = Nil
  MaxChunks = 1
  Disciplined = TRUE
SPECIFICATION FairSpec
INVARIANTS
  NoUncaught
  RunningInFlight
PROPERTIES
  EveryRequestEnds
CHECK_DEADLOCK FALSE
