SPECIFICATION Spec
CONSTANTS
  Timer = {t1, t2}
  MinDelay = 2
  Size = 4
  WheelCount = 3
  Delays = {1, 9, 30}
  Starts = {25}
  Polled = TRUE
  Lag = 2
  MaxTime = 57
  None = None
CHECK_DEADLOCK FALSE
INVARIANT Filed Punctual
PROPERTY ImplementsTimers
SYMMETRY TimerSymmetry
