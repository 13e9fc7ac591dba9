\* Two workers over one event, three attempts, late confirmations. No symmetry: liveness.
SPECIFICATION FairSpec
CONSTANTS
  c1 = c1  p1 = p1  p2 = p2
  None = None
  Events = {1}
  Copies = {}
  Publishers = {p1, p2}
  Batch = 2
  MaxRetry = 3
  MaxLate = 1
\* The system rests when all events are published or dead.
CHECK_DEADLOCK FALSE
INVARIANTS IInv SingleSender
PROPERTIES Delivers
