SPECIFICATION Spec
CONSTANTS
  INBOX = INBOX
  NULL = NULL
  Folders = {INBOX}
  MaximumConnections = 1
  MaxOperations = 2
  MaxCancels = 0
INVARIANT RestartHasItsSession
\* The client may stop calling, and then nothing is left to do.
CHECK_DEADLOCK FALSE
