\* Fair scheduling; a transaction may fail again and again, or be committed
\* without the flusher hearing of it, a push done without go-redis hearing.
SPECIFICATION FairSpec
CONSTANTS
  Workers = {w1}
  Capacity = 1
  FlushMax = 2
  Faults = {"db", "ack", "resend"}
  MaxJobs = 3
INVARIANTS
  DeliveredInOrder
PROPERTIES
  EveryCheckIsStored
  QueueKept
