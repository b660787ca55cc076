SPECIFICATION PlatformSpec
CONSTANTS
  Grants = {g1}
  Users = {u1, u2}
  Operators = {u1, u3}
  OperatorCalls = {o1, o2}
  TenantCalls = {t1, t2}
  None = None
  Items = {i1, i2}
  Requests = {r1, r2}
  Switches = {"onboarding", "active", "suspended"}
  MaxLinks = 2
  MaxLost = 1
  Tables = 2
  RowsEach = 2
  BATCH = 1
  Workers = {w1, w2}
  MaxAttempts = 2
  MaxRuns = 2
  MaxEdits = 1
  MaxEvents = 2
  Files <- Journal
  Jobs = {j1, j2}
CHECK_DEADLOCK FALSE
SYMMETRY Interchangeable
INVARIANTS SeparationOfDuties SerialUseIsWatched BackfillStands MigrationsStand
PROPERTIES OneReview SerialRefusalIsFinal OnboardingStands
