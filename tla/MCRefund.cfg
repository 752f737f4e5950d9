SPECIFICATION Spec
CONSTANTS
  p1 = p1
  p2 = p2
  a1 = a1
  a2 = a2
  Pods = {p1, p2}
  Admins = {a1, a2}
  Owners = {owner}
  Threshold = 2
  MaxRefunds = 2
  MaxDeaths = 1
  NoPod = NoPod
SYMMETRY MCSymmetry
INVARIANTS RefundedIsReturned RefundsAccountedFor ClosedBelowThreshold
CHECK_DEADLOCK FALSE
