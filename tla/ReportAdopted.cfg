SPECIFICATION Spec
CONSTANTS
  Reports = {r1, r2}
  Torn = Torn
  Temps = {n1, n2}
  Output = Output
  Workers = {w1, w2}
  Tokens = {t1, t2, t3}
  PowerMayFail = FALSE
  None = None
INVARIANTS PublicationFlushed
\* A sealed mission has nothing left to do.
CHECK_DEADLOCK FALSE
