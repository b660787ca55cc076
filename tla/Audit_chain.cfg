SPECIFICATION AuditSpec
CONSTANTS
  Txs = {t1, t2, t3}
  MaxId = 4
  MaxClock = 1
  PageSize = 2
  Jobs = {j1, j2}
  MaxEvents = 2
  MaxDay = 3
  MaxRestores = 1
CHECK_DEADLOCK FALSE
SYMMETRY Interchangeable
INVARIANTS ChainStands CheckpointsStand SerialRunsAgree
PROPERTIES ImplementsLog WaitEnds LossIsNeverSigned
