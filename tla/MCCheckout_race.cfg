\* One order: the expiration worker against a payment callback.
SPECIFICATION Spec
CONSTANTS
  p1 = p1  p2 = p2  o1 = o1  o2 = o2  o3 = o3  k1 = k1  k2 = k2
  t1 = t1  t2 = t2  t3 = t3  w1 = w1  w2 = w2
  None = None
  Products = {p1}
  Orders = {o1}
  Keys = {k1}
  Handlers = {t1}
  Workers = {w1}
  Carts <- OneProductCarts
  InitialStock <- OneProductStock
  MaxQty = 2
  Restocks = {}
  ManualQtys = {}
  MaxSupply = 2
  MaxManual = 0
  MaxLowered = 0
  Batch = 1
CHECK_DEADLOCK FALSE
INVARIANTS
  PaidIsNotExpired
