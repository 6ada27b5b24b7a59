CONSTANTS
  Multis = {m1, m2}
  Easies = {e1}
  Fds = {d1, d2}
  Contexts = {1, 2}
  Nil = Nil
  Disciplined = TRUE
SPECIFICATION FairSpec
INVARIANTS
  NeverAborts
  PollsWhatIsAsked
  ContextOutlivesCall
PROPERTIES
  TeardownCompletes
CHECK_DEADLOCK FALSE
