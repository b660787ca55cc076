SPECIFICATION RetentionSpec
CONSTANTS
  a1 = a1
  e1 = e1
  f1 = f1
  f2 = f2
  None = None
  Apps = {a1}
  Evidence = {e1}
  Responses = {f1, f2}
  FormApp <- FormOf
  Origin <- OriginOf
  Sweeps = {j1, j2}
  NeverThere <- AbsentChoices
  Policies <- SweepPolicies
  MaxWalks = 3
  MaxRegister = 2
  PolicyIds = {p1}
  People = {j1, j2}
  ra = ra
  rb = rb
  References = {ra}
  Days = {1, 2}
  Terms <- SignedTerms
  MaxSignoffs = 2
  Signings = {j1, j2}
  Activations = {v1}
  Gatings = {w1}
  Cases = {k1, k2, k3}
  Clients = {c1, c2}
  Jobs = {j1, j2}
SYMMETRY Interchangeable
CONSTRAINT WithinBounds
PROPERTIES AttachedResponsesKept
CHECK_DEADLOCK FALSE
