SPECIFICATION Spec
CONSTANTS
  Timer = {t1}
  MinDelay = 2
  Size = 4
  WheelCount = 2
  Delays = {1, 9}
  Starts = {0}
  Polled = FALSE
  Lag = 2
  MaxTime = 40
  None = None
CHECK_DEADLOCK FALSE
INVARIANT InRange
