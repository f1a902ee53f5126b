SPECIFICATION Spec
CONSTANTS
  Sends = {s1, s2}
  Others = {}
  MaxStarted = 2
  TimerRetains = TRUE
  Disconnects = {d1, d2, d3}
INVARIANT
  SuccessMeansSent
CHECK_DEADLOCK FALSE
