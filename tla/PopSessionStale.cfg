SPECIFICATION Spec
CONSTANTS
  Messages = {m1, m2}
  MaxQueued = 1
INVARIANT IndexIsAReference
