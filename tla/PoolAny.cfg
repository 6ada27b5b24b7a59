CONSTANTS
  Curls = {c1, c2}
  Calls = {k1, k2, k3}
  Limits = {0, 1, 2}
  Nil = Nil
SPECIFICATION FairSpec
INVARIANTS
  PoolSound
  HandlesAccounted
PROPERTIES
  MatchedCallsSettle
