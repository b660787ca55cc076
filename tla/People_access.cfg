SPECIFICATION PeopleSpec
CONSTANTS
  Calls = {c1, c2, c3}
  Workers = {w1, w2}
  MaxRows = 4
  None = None
  Persons = {w1, w2}
  MaxInvites = 2
  MayAdmin = TRUE
  Requests = {c1, c2}
  Invitations = {i1}
  Matters = {m1, m2}
VIEW Seen
SYMMETRY Interchangeable
CONSTRAINT WithinBounds
ACTION_CONSTRAINT InvitationsAfterOverlap
INVARIANTS OneAssignee FormsAnsweredOnce
PROPERTIES SerialMembersKept 
CHECK_DEADLOCK FALSE
