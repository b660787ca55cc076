SPECIFICATION KeysSpec
CONSTANTS
  Arns = {k1, k2}
  Requests = {c1, c2}
  None = None
  MaxReplacements = 2
  MaxFiles = 2
  Values = {v1}
  MaxTries = 2
SYMMETRY Interchangeable
CONSTRAINT WithinBounds
INVARIANTS SerialRewrapHolds
PROPERTIES StandsDown
CHECK_DEADLOCK FALSE
