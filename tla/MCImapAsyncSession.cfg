SPECIFICATION FairSpec
CONSTANTS
  INBOX = INBOX
  NULL = NULL
  Folders = {INBOX, work}
  work = work
  MaximumConnections = 2
  MaxOperations = 3
  MaxCancels = 1
INVARIANTS
  RunningStateTruthful
  RetainsBalanced
  FreedWhenDone
  NoConnectionLeftOpen
  OneConnectionPerFolder
  UrgentWaitsOnlyWhenFull
PROPERTIES
  ConnectionsComeToRest
  ReleasedSessionIsFreed
\* The client may stop calling, and then nothing is left to do.
CHECK_DEADLOCK FALSE
