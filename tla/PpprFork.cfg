\* Two sessions: the second one is a fork of the first, or of its own making.
CONSTANTS
  Sessions = {s1, s2}
  NoState = NoState
  MaxRuns = 1
  MaxRequests = 2
  MaxConversation = 0
  MaxFulfilled = 1
SPECIFICATION Spec
CHECK_DEADLOCK FALSE
INVARIANTS
  PendingOwned
PROPERTIES
  LedgerSpec
