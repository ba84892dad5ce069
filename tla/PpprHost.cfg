\* Three effects against a limit of two rounds, so that the loop finishes, throws
\* and is retried, with one loss of a state.
CONSTANTS
  Sessions = {s1}
  NoState = NoState
  MaxEffectRounds = 2
  MaxRequests = 3
  MaxRuns = 1
  MaxLosses = 1
SPECIFICATION Spec
CHECK_DEADLOCK FALSE
INVARIANTS
  TypeOK
  RepeatedOnlyAfterLoss
PROPERTIES
  RecordedNeverRepeated
