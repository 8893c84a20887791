SPECIFICATION Spec
CONSTANTS
  Jobs = {j1, j2}
  Queue = {q1}
  Workers = {w1, w2}
  Tokens = {t1, t2, t3}
  NumRoles = 0
  None = None
SYMMETRY Symmetry
CONSTRAINTS RowsCompete EvidenceHolds ReportsStayFresh VerdictsStand
            RetriesOfFailures OneRecovery
INVARIANTS ExclusiveExecution
