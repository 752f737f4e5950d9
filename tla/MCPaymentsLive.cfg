SPECIFICATION FairSpec
CONSTANTS
  p1 = p1
  p2 = p2
  Orders = {o1}
  Procs = {p1, p2}
  Price = 3
  DemoPrice = 0
  Discounts = {2}
  MaxUses = 1
  NoCode = NoCode
  NoOrder = NoOrder
PROPERTIES CollectedIsSettled PaidIsStarted
CHECK_DEADLOCK FALSE
