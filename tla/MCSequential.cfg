SPECIFICATION MCSpec
CONSTANTS
  UINT64_MAX = 11
  UINT32_MAX = 8
  Inputs <- Numbers
  Straddling = FALSE
  splitCount = 2
  Messages = {m1, m2, m3}
  MaxQueued = 1
  Groups = {g1, g2}
  MaxSize = 6
  chunkSize = 3
  maxRetries = 3
INVARIANTS
  StandsForIndexes
  ReachesTheServer
  ActsOnWhatWasListed
  ReadsTheGroupAsked
  FileIsThePart
