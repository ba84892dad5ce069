CONSTANTS
  Callers = {c1, c2}
  Sessions = {s1, s2}
  FirstSession = s1
  MaxRetries = 1
  Outcomes = {"big", "silent", "retryable", "overflow", "toolUse", "fatal", "abortedBig"}
  MaxPrompts = 2
  MaxTrouble = 2
  MaxBash = 1
  MaxActs = 2
SPECIFICATION Spec
SYMMETRY CallerSymmetry
CHECK_DEADLOCK FALSE
INVARIANTS
  WaiterHasProgress
  ContextMatchesSession
  PersistedOnceInOrder
  BashKeepsToolPairs
PROPERTIES
  DropsByCompaction
