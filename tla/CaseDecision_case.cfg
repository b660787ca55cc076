SPECIFICATION Spec
CONSTANTS
  Calls = {c1, c2}
  Members = {m1}
  Decisions = {d1, d2}
  Outcomes = {"confirmed"}
  None = None
  StartStatuses = {"draft", "in_committee"}
  MaxMoves = 5
  MaxVotes = 2
  MaxDeclared = 1
SYMMETRY Interchangeable
INVARIANTS HistoryIsAPath FinalWithTheCase
PROPERTIES ImplementsLifecycle
