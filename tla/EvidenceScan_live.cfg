SPECIFICATION FairHistorySpec
CONSTANTS
  Evidence = {e1}
  FormFiles = {e1}
  Requests = {r1, r2}
  Workers = {w1}
  Contents <- TwoGood
  RightSize <- TwoGood
  RightType <- TwoGood
  Harmless <- TwoGoodClean
  NoObject = NoObject
  MaxJobs = 2
  MaxLetters = 1
  MaxFaults = 1
  LocksExpire = FALSE
  good = good
  good2 = good2
  virus = virus
CHECK_DEADLOCK FALSE
PROPERTIES UploadsResolve ImplementsLifecycle
