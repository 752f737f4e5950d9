SPECIFICATION Spec
CONSTANTS
  o1 = o1
  o2 = o2
  w1 = w1
  w2 = w2
  Orders = {o1, o2}
  Accounts = {a1}
  Workers = {w1, w2}
  Crons = {c1}
  Admins = {}
  MaxSlots = 2
  MaxJobs = 1
  HeartbeatHolds = TRUE
  NoOrder = NoOrder
  NoAccount = NoAccount
SYMMETRY MCSymmetry
INVARIANTS ProcessingHasAccount SlotsAccountedFor OneGeneration DeliveredOnce
