CONSTANTS
  Sizes = {1, 2}
  KeepRecentTokens = 2
  TokenBudget = 4
  MaxEntries = 6
  MaxAsides = 1
SPECIFICATION Spec
CHECK_DEADLOCK FALSE
INVARIANTS
  NothingForgotten
