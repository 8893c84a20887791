SPECIFICATION MCSpec
CONSTANTS
  Reports = {r1, r2}
  Torn = Torn
  Temps = {n1, n2}
  Output = Output
  Workers = {w1, w2}
  Tokens = {t1, t2, t3}
  PowerMayFail = TRUE
  Handlers = {x1, x2, x3}
  Rows = {q1, q2, q3}
  AbandonMayFail = FALSE
  Jobs = {j1}
  None = None
  Null = None
INVARIANTS ShutdownExcludesMissions ClaimsAreHeld
PROPERTIES SlotComesFree RunningEnds PublishedGetsSealed SealsWhatItSees StatusLeavesRunning
\* A sealed mission, or a server that has shut down, has nothing left to do.
CHECK_DEADLOCK FALSE
