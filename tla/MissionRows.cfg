SPECIFICATION MCSpec
CONSTANTS
  None = None
\* rows
  Jobs = {j1}
  Queue = {q1, q2}
  Workers = {w1, w2}
  Tokens = {t1, t2}
  NumRoles = 0
\* experiments and missions
  Receipts = {e1, e2}
  Failed = {e2}
  Missions = {m1, m2}
  Commands = {t1, t2}
  Target = 2
  MaxDue = 1
  MaxReviews = 2
SYMMETRY Symmetry
CONSTRAINTS OneRecovery RowsInPlay
INVARIANTS RowsShowVerdict ReviewsAreKept AcceptedResultsPass
PROPERTIES ImplementsQueueLifecycle
\* Commands are given the tokens' names, so that one symmetry serves both; in no
\* world do both appear. Reviews may come to rest with their work done.
CHECK_DEADLOCK FALSE
