CONSTANTS
  EVENT_QUEUE_SIZE = 3
  UsesLPM0 = TRUE
  Event = {e1, e2}
  NoEvent = none
  num_sensors = 2
  NUMEVENTS = 2
  OtherEvent = other
SPECIFICATION EventsSpec
INVARIANT IInv
PROPERTIES ImplementsService WaitingEventRuns ChangesAreRead
CHECK_DEADLOCK FALSE
