CONSTANTS
  t1 = t1
  t2 = t2
  q1 = q1
  q2 = q2
  CLOCK_RANGE = 8
  Timer = {t1, t2}
  Process = {q1, q2}
  User <- MCUser
  Interval = {2, 5}
  PROCESS_NONE = none
  NumEvents = 1
  MaxCatchUp = 1
  MaxLag = 1
  Mortal = {q1, q2}
SPECIFICATION Spec
INVARIANT PostedInTime
