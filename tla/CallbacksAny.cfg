CONSTANTS
  Easies = {e1, e2}
  Nil = Nil
  MaxSet = 2
  Disciplined = TRUE
  MaxLength = 3
  MaxAnswers = 3
  MaxOffset = 1
SPECIFICATION MCSpec
SYMMETRY Symmetry
INVARIANTS
  CallbacksFindTheirEasy
  DoneMeansAll
  ResetForgets
PROPERTIES
  EntriesInOrder
CHECK_DEADLOCK FALSE
