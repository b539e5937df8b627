CONSTANTS
  p1 = p1
  p2 = p2
  p3 = p3
  Process = {p1, p2, p3}
  Autostart <- MCAutostart
  NULL = NULL
  PROCESS_CONF_NUMEVENTS = 1
  PostedEvent = {"ev"}
  Polled = {p2}
  Deeds <- MCDeeds
  ExitsRunningCaller = FALSE
SPECIFICATION FairSpec
INVARIANTS KernelConsistent NoLostPoll
PROPERTIES BroadcastReachesAll PollsServed
