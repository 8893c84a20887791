SPECIFICATION FairSpec
CONSTANTS
  Callers = {x1, x2}
  Pids = {p1, p2, p3}
  Ids = {i1, i2, i3}
  MaxTries = 2
  CallersMayDie = TRUE
  WritesMayFail = TRUE
  Null = None
INVARIANTS SettledIsGone
PROPERTIES ImplementsServiceLife RecordOutlivesService OnlyTheRecordedStops LockComesFree
