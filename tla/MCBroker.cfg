\* One event, two subscribers with one consumer each, one retry, two faults.
SPECIFICATION FairSpec
CONSTANTS
  None = None
  p1 = p1
  Events = {1}
  Subscribers = {"mail-service", "order-service"}
  Processes = {p1}
  MaxRetry = 1
  MaxPublishes = 1
  MaxFaults = 2
INVARIANTS IInv Accounted CopiesBounded
PROPERTIES EventSettles QueuesDrain
\* The system rests when all queues are empty.
CHECK_DEADLOCK FALSE
