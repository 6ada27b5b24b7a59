CONSTANTS
  Requests = {1, 2}
  Streams = {1, 2}
  Nil = Nil
  Ask = 2
  MaxBytes = 3
  Disciplined = TRUE
SPECIFICATION FairSpec
INVARIANTS
  BodyWhole
PROPERTIES
  ReadsOwnSource
  EveryBodyEnds
CHECK_DEADLOCK FALSE
