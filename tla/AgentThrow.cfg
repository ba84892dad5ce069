\* Listeners throw, which leaves a loop running in the background, and callers
\* prompt again from the last event of a run, before it is over; queues are
\* taken whole.
CONSTANTS
  SteeringMode = "all"
  FollowUpMode = "all"
  EagerCallers = TRUE
  ListenersThrow = TRUE
  QueueWhenIdle = FALSE
  MaxRuns = 2
  MaxMessages = 2
  MaxToolTurns = 1
  MaxCalls = 1
SPECIFICATION Spec
CHECK_DEADLOCK FALSE
INVARIANTS
  RunReachable
PROPERTIES
  RunsEnd
