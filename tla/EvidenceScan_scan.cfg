SPECIFICATION HistorySpec
CONSTANTS
  Evidence = {e1}
  FormFiles = {}
  Requests = {r1, r2}
  Workers = {w1, w2}
  Contents <- TwoGood
  RightSize <- TwoGood
  RightType <- TwoGood
  Harmless <- TwoGoodClean
  NoObject = NoObject
  MaxJobs = 1
  MaxLetters = 1
  MaxFaults = 2
  LocksExpire = TRUE
  good = good
  good2 = good2
  virus = virus
CHECK_DEADLOCK FALSE
SYMMETRY Interchangeable
INVARIANTS PromotedIsVerified DownloadHasObject ScansWhileLocked
