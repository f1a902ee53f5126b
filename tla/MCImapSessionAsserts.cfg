SPECIFICATION Spec
CONSTANTS
  NULL = NULL
  INBOX = INBOX
  Folders = {INBOX, work}
  Fold <- OwnNames
  Operations <- AllOperations
  Servers <- OldServer
  MaxChunks = 1
  maxRetries = 1
  MaxFaults = 1
INVARIANTS
  AssertionsHold
CHECK_DEADLOCK FALSE
