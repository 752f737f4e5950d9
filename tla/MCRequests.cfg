SPECIFICATION Spec
CONSTANTS
  r1 = r1
  r2 = r2
  r3 = r3
  w1 = w1
  w2 = w2
  m1 = m1
  m2 = m2
  Attempts = {r1, r2, r3}
  Keys = {k1}
  NoKey = NoKey
  Emails = {m1, m2}
  Workers = {w1, w2}
  DailyLimit = 2
  IPLimit = 3
  MaxFaults = 1
  MaxBefore = 1
  NoOrder = NoOrder
SYMMETRY MCSymmetry
INVARIANTS OneOrderPerKey ReplayIsTheOrder HeldWhileRunning OneDemoPerEmail WithinDailyLimit RefusalsCostNothing
CHECK_DEADLOCK FALSE
