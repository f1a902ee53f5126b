SPECIFICATION FairSpec
CONSTANTS
  MaxOps = 2
  Folders = {inbox, drafts}
  MaxFaults = 2
  NULL = NULL
INVARIANTS
  TeardownWaits
  IdleConnectionIsDropped
  SetupIsUndone
  InterruptIsHeard
PROPERTIES
  InterruptedIdleEnds
  TeardownEnds
