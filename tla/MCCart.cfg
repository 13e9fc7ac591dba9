\* Two requests at a time over two products; quantities of three bits: -4..3.
SPECIFICATION Spec
CONSTANTS
  None = None
  a = a  b = b  r1 = r1  r2 = r2
  Products = {a, b}
  Requests = {r1, r2}
  AddQtys = {1}
  NewQtys = {0, 2}
  Half = 4
SYMMETRY SymCart
INVARIANTS IInv CartLedger QuantitiesPositive
