CONSTANTS
  t1 = t1
  t2 = t2
  q1 = q1
  q2 = q2
  CLOCK_RANGE = 8
  Timer = {t1, t2}
  Process = {q1, q2}
  User <- MCUser
  Interval = {1, 2}
  PROCESS_NONE = none
  NumEvents = 1
  MaxCatchUp = 2
  MaxLag = 1
  Mortal = {q1}
SPECIFICATION FairSpec
INVARIANT TimersWatched
PROPERTIES ImplementsTimerService DueTimerPosted
