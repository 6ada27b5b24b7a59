CONSTANTS
  Requests = {1, 2}
  Nil = Nil
  HighWaterMark = 1
  MaxChunk = 2
  MaxBytes = 4
SPECIFICATION FairSpec
INVARIANTS
  StreamIntegrity
  EndedBeforeEnd
PROPERTIES
  StreamedRequestsEnd
CHECK_DEADLOCK FALSE
