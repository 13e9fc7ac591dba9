\* Two products in every cart, locked in either order.
\* No symmetry: the properties are liveness.
SPECIFICATION FairSpec
CONSTANTS
  p1 = p1  p2 = p2  o1 = o1  o2 = o2  o3 = o3  k1 = k1  k2 = k2
  t1 = t1  t2 = t2  t3 = t3  w1 = w1  w2 = w2
  None = None
  Products = {p1, p2}
  Orders = {o1, o2}
  Keys = {k1}
  Handlers = {t1, t2}
  Workers = {w1}
  Carts <- BothCarts
  InitialStock <- BothStock
  MaxQty = 1
  Restocks = {}
  ManualQtys = {}
  MaxSupply = 2
  MaxManual = 0
  MaxLowered = 0
  Batch = 2
\* The system rests when the bounded supply of orders is used up.
CHECK_DEADLOCK FALSE
PROPERTIES
  TransactionsEnd OverdueExpires
