SPECIFICATION FairSpec
CONSTANTS
  o1 = o1
  w1 = w1
  Orders = {o1}
  Workers = {w1}
  Crons = {c1}
  Admins = {}
  MaxSlots = 2
  MaxJobs = 2
  PollsInTime = TRUE
  NoOrder = NoOrder
PROPERTY DemoEnds
CHECK_DEADLOCK FALSE
