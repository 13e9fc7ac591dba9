\* Three requests over two payments and a pool of two connections: one SUCCESS
\* callback and a repetition of it are enough to exhaust it.
SPECIFICATION FairSpec
CONSTANTS
  None = None
  o1 = o1  o2 = o2  r1 = r1  r2 = r2  r3 = r3
  Payments = {o1, o2}
  Requests = {r1, r2, r3}
  Size = 2
INVARIANTS IInv
PROPERTIES RequestsEnd OnlyHangUpHelps
