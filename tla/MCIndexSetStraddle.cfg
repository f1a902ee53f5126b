SPECIFICATION Spec
CONSTANTS
  UINT64_MAX = 11
  UINT32_MAX = 8
  Inputs <- Numbers
  Straddling = TRUE
  splitCount = 2
PROPERTY AddRangeLosesNothing
