\* Violation: a batch whose context expires cannot be requeued.
SPECIFICATION Spec
CONSTANTS
  Workers = {w1}
  Capacity = 1
  FlushMax = 2
  Faults = {"timeout"}
  MaxJobs = 2
INVARIANTS
  DeliveredInOrder
