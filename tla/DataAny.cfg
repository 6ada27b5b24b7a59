CONSTANTS
  MaxBody = 3
  MaxLines = 2
SPECIFICATION DataSpec
INVARIANTS
  HeadersPerResponse
  DataIsOwn
  ParsedByFinalType
  InflatesWhatIsEncoded
