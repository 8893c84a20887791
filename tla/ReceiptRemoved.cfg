SPECIFICATION EvidenceSpec
CONSTANTS
  Receipts = {e1, e2}
  Failed = {e2}
  Missions = {}
  Commands = {a1, a2}
  Target = 2
  MaxDue = 0
  MaxReviews = 2
  None = None
INVARIANTS ReviewsHaveReceipts
CHECK_DEADLOCK FALSE
