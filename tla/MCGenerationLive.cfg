SPECIFICATION FairSpec
CONSTANTS
  o1 = o1
  w1 = w1
  w2 = w2
  Orders = {o1}
  Accounts = {a1}
  Workers = {w1, w2}
  Crons = {c1}
  Admins = {}
  MaxSlots = 2
  MaxJobs = 2
  HeartbeatHolds = TRUE
  NoOrder = NoOrder
  NoAccount = NoAccount
PROPERTY EveryOrderEnds
