SPECIFICATION MCSpec
CONSTANTS
  A = A
  B = B
  Callers = {c1, c2}
  Projects = {A, B}
  Budgets = {1, 2}
  MaxRevision = 4
  None = None
  Rows = {r1, r2, r3}
  Schedules = {d1}
  Missions <- MCMissions
  Priorities = {1, 2}
  Cadences = {1, 2}
  MaxNow = 4
  RowsUntil = 1
\* knowledge
  Clients = {c1, c2}
  Sources = {s1, s2}
  MaxVersion = 1
SYMMETRY Symmetry
INVARIANTS DatesAreSingle ExecutesWhatWasClaimed
PROPERTIES FocusSwapsReviewed ClaimsReviewedHead
PROPERTIES RowsLiveAsPromised ImplementsEvidenceBase
CHECK_DEADLOCK FALSE
