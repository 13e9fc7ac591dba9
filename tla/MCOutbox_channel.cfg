\* One worker and a consumer share a channel; confirmations may come late.
SPECIFICATION Spec
CONSTANTS
  c1 = c1  p1 = p1  p2 = p2
  None = None
  Events = {1, 2}
  Copies = {c1}
  Publishers = {p1}
  Batch = 2
  MaxRetry = 2
  MaxLate = 1
\* The system rests when all events are published or dead.
CHECK_DEADLOCK FALSE
INVARIANTS AnswersMatch PublishedDelivered
