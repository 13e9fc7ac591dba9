\* Two orders, one product, one key shared or two, restocks and manual calls.
SPECIFICATION Spec
CONSTANTS
  p1 = p1  p2 = p2  o1 = o1  o2 = o2  o3 = o3  k1 = k1  k2 = k2
  t1 = t1  t2 = t2  t3 = t3  w1 = w1  w2 = w2
  None = None
  Products = {p1}
  Orders = {o1, o2}
  Keys = {k1, k2}
  Handlers = {t1, t2}
  Workers = {w1}
  Carts <- OneProductCarts
  InitialStock <- OneProductStock
  MaxQty = 2
  Restocks <- OneEitherWay
  ManualQtys <- OneEitherWay
  MaxSupply = 3
  MaxManual = 1
  MaxLowered = 2
  Batch = 2
\* The system rests when the bounded supply of orders is used up.
CHECK_DEADLOCK FALSE
SYMMETRY Symmetric
INVARIANTS IInv TypeOK NoOversell ReservedLedger StockLedger CallbackSettles OneOpenOrderPerKey VerdictsAgree OutboxMatches
PROPERTIES FinishedStays KeepsBook
