\* Two workers, two events in one batch, one retry. No symmetry: liveness.
SPECIFICATION FairSpec
CONSTANTS
  None = None
  p1 = p1
  p2 = p2
  Events = {1, 2}
  Processors = {p1, p2}
  Batch = 2
  MaxRetry = 1
  MailCap = 2
INVARIANTS IInv TypeOK RetriesBounded MailedIfProcessed SingleHolder MailedOnce
PROPERTIES FinalStays EventsEnd
\* The system rests when every event is processed or failed.
CHECK_DEADLOCK FALSE
