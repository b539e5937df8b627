CONSTANTS
  EVENT_QUEUE_SIZE = 2
  ST_EVENT_QUEUE_LENGTH = 2
  A = A
  B = B
  C = C
  X = X
  Y = Y
  State <- MCState
  Evt <- MCEvt
  FirstState = A
  Transitions <- MCTransitions
  Null = null
SPECIFICATION Spec
INVARIANT ActiveStateExecuted
PROPERTIES ImplementsStateService SlotsAccounted
