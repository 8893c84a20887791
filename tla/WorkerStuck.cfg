SPECIFICATION FairSpec
CONSTANTS
  Handlers = {x1, x2, x3}
  Rows = {q1, q2, q3}
  AbandonMayFail = TRUE
  Null = None
PROPERTIES StatusLeavesRunning
\* A server that has shut down has nothing left to do.
CHECK_DEADLOCK FALSE
