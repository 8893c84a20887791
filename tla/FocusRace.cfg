SPECIFICATION MCSpec
CONSTANTS
  A = A
  B = B
  Callers = {c1, c2}
  Projects = {A, B}
  Budgets = {1, 2}
  MaxRevision = 3
  None = None
  Rows = {r1, r2}
  Schedules = {s1}
  Missions <- MCMissions
  Priorities = {1}
  Cadences = {1}
  MaxNow = 1
  RowsUntil = 0
\* knowledge and suites rest
  Clients = {}
  Sources = {}
  MaxVersion = 0
  Pages = {}
  Suites = {}
  Manifests = {}
  MaxSuiteRuns = 1
PROPERTIES WorkKeepsFocus
CHECK_DEADLOCK FALSE
