CONSTANTS
  Requests = {1}
  Nil = Nil
  HighWaterMark = 2
  MaxChunk = 2
  MaxBytes = 5
SPECIFICATION FairSpec
PROPERTIES
  WaitingReaderServed
CHECK_DEADLOCK FALSE
