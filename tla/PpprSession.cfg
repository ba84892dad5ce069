\* One session with room for two requests, so that one is pending while the
\* other settles, and for a duplicate result; a run can end and another begin.
CONSTANTS
  Sessions = {s1}
  NoState = NoState
  MaxRuns = 2
  MaxRequests = 2
  MaxConversation = 1
  MaxFulfilled = 2
SPECIFICATION Spec
CHECK_DEADLOCK FALSE
INVARIANTS
  TypeOK
  AwaitingHasPending
  PendingNotFulfilled
PROPERTIES
  HistoryKept
  StatusReported
