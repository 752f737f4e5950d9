SPECIFICATION Spec
CONSTANTS
  o1 = o1
  w1 = w1
  w2 = w2
  Orders = {o1}
  Workers = {w1, w2}
  Crons = {c1}
  Admins = {adm}
  MaxSlots = 2
  MaxJobs = 1
  PollsInTime = TRUE
  NoOrder = NoOrder
SYMMETRY MCSymmetry
INVARIANTS SlotsAccountedFor OneDemoJob FullDelivery HeardIsDelivered
CHECK_DEADLOCK FALSE
