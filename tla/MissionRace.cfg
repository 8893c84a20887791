SPECIFICATION Spec
CONSTANTS
  Jobs = {j1}
  Queue = {q1}
  Workers = {w1, w2}
  Tokens = {t1, t2, t3}
  NumRoles = 1
  None = None
SYMMETRY Symmetry
INVARIANTS TypeOK IntentUnderLease OneHolder PassedIsWhole
PROPERTIES LateResultsDiscarded SealedIsFinal
