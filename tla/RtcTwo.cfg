CONSTANTS
  Alarm = {a1, a2}
  NoAlarm = null
  Delay = {0, 2, 5}
  DEFAULT_FREQUENCY = 2
  Frequency = {2}
  Time = {0}
  MaxElapsed = 1
  MaxTime = 8
SPECIFICATION RtcSpec
INVARIANT SetAlarmsAreListed
\* The clock stops at MaxTime.
CHECK_DEADLOCK FALSE
