SPECIFICATION FairSpec
CONSTANTS
  NULL = NULL
  INBOX = INBOX
  Folders = {INBOX, work}
  Fold <- OwnNames
  Operations <- AllOperations
  Servers <- TwoServers
  MaxChunks = 2
  maxRetries = 2
  MaxFaults = 2
INVARIANTS
  StateMatchesServer
  CommandsHitTheirFolder
  FailedConnectionIsReplaced
  SuccessMeansDone
  AssertionsHoldUncompressed
PROPERTY
  EveryOperationIsAnswered
\* The client may stop calling, and then nothing is left to do.
CHECK_DEADLOCK FALSE
