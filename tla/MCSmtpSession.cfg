SPECIFICATION FairSpec
CONSTANTS
  Sends = {s1, s2}
  Others = {x}
  MaxStarted = 2
  TimerRetains = TRUE
  Disconnects = {d1, d2, d3}
INVARIANTS
  CancelsLiveStream
  UndisturbedSuccessMeansSent
  EarlyCancelIsHeard
  FailedConnectionIsReplaced
  SendsAuthenticated
PROPERTY
  NoConnectionLeftOpen
CHECK_DEADLOCK FALSE
