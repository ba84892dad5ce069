CONSTANTS
  Callers = {c1}
  Sessions = {s1}
  FirstSession = s1
  MaxRetries = 1
  Outcomes = {"retryable", "fatal"}
  MaxPrompts = 1
  MaxTrouble = 2
  MaxBash = 0
  MaxActs = 0
SPECIFICATION Spec
CHECK_DEADLOCK FALSE
PROPERTIES
  PromptReturns
