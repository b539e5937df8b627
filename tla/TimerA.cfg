CONSTANTS
  TAR_RANGE = 6
  TIMER_ALARM_NUMBER = 2
  COUNT_RANGE = 4
  Callback = {f, g}
  NULL = null
  Wait = {2, 3}
  Count = {1, 3}
  MaxDelay = 1
  MaxLag = 1
SPECIFICATION TimerSpec
INVARIANT AlarmsOnTime
PROPERTY CalledAsAsked
