\* One event published twice, two processes, one retry on either side.
SPECIFICATION FairSpec
CONSTANTS
  None = None
  p1 = p1  p2 = p2
  Events = {1}
  Subscribers = {"mail-service"}
  MailService = "mail-service"
  Processes = {p1, p2}
  MaxRetry = 1
  MaxPublishes = 2
  MaxFaults = 0
  Batch = 1
  MaxMailRetry = 1
  MailCap = 2
INVARIANTS MailedOnceEndToEnd
PROPERTIES DuplicatesChangeNothing EveryEventEnds
\* The system rests when the event is over.
CHECK_DEADLOCK FALSE
