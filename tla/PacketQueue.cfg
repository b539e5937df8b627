CONSTANTS
  NumItems = 2
  QUEUEBUF_NUM = 1
  QUEUEBUF_REF_NUM = 1
  Ctimer = {1, 2, app}
  MaxInterval = 2
  AppInterval = {1, 2}
  NumEvents = 2
SPECIFICATION FairSpec
INVARIANT QueueConsistent
PROPERTIES LeavesInOrder LifetimesEnd
