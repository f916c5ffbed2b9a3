\* Redis, the database, the context and the process may fail.
SPECIFICATION Spec
CONSTANTS
  Workers = {w1, w2}
  Capacity = 1
  FlushMax = 2
  Faults = {"db", "redis", "timeout", "crash"}
  MaxJobs = 5
SYMMETRY Symmetry
INVARIANTS
  TypeOK
  CheckedOnce
  StoredOnceInOrder
PROPERTIES
  QueueKept
