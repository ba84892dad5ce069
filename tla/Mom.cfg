CONSTANTS
  Texts = {"hi"}
  MaxQueue = 2
  MaxEvents = 3
  MaxInputs = 4
  Files = {f1}
SPECIFICATION Spec
CHECK_DEADLOCK FALSE
INVARIANTS
  TypeOK
  ContextHoldsLog
  MessageOnce
  QueueServed
  ScheduleMatchesFiles
PROPERTIES
  EventsInOrder
