SPECIFICATION QueuesSpec
CONSTANTS
  Deliveries = {d1}
  Calls = {c1}
  Sweep = Sweep
  Workers = {w1, w2}
  MaxAttempts = 2
  MaxFaults = 1
  MaxAsked = 2
  Exports = {e1}
  MaxClaims = 2
  MaxMishaps = 1
INVARIANTS CopiesAsAsked ExportsHold
PROPERTIES WorkSettles
CHECK_DEADLOCK FALSE
