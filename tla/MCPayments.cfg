SPECIFICATION Spec
CONSTANTS
  p1 = p1
  p2 = p2
  Orders = {o1}
  Procs = {p1, p2}
  Price = 3
  DemoPrice = 1
  Discounts <- MCDiscounts
  MaxUses = 1
  NoCode = NoCode
  NoOrder = NoOrder
SYMMETRY MCSymmetry
INVARIANTS TypeOK ReleasedOnce PaidInFull PromoWithinLimit
PROPERTIES PriceFrozen ImplementsCheckout
CHECK_DEADLOCK FALSE
