\* Prompts, continues and queued messages around two runs with up to two tool
\* calls: steering can arrive before, between and after the tools, and a run can
\* fail, be aborted, retried or reset.
CONSTANTS
  SteeringMode = "one-at-a-time"
  FollowUpMode = "one-at-a-time"
  EagerCallers = FALSE
  ListenersThrow = FALSE
  QueueWhenIdle = TRUE
  MaxRuns = 2
  MaxMessages = 3
  MaxToolTurns = 1
  MaxCalls = 2
SPECIFICATION Spec
CHECK_DEADLOCK FALSE
INVARIANTS
  TypeOK
  StateMirrorsLoop
  ToolCallsAnswered
  NoMessageLost
  DeliveredInOrder
