SPECIFICATION KeysSpec
CONSTANTS
  Arns = {k1, k2}
  Requests = {c1}
  None = None
  MaxReplacements = 2
  MaxFiles = 2
  Values = {v1}
  MaxTries = 2
SYMMETRY Interchangeable
CONSTRAINT NobodyOvertaken
PROPERTIES HumanStatesStand
CHECK_DEADLOCK FALSE
