\* Violation: two overlapping failed checks both announce the incident.
SPECIFICATION Spec
CONSTANTS
  Procs = {p1, p2}
  Channels = {email}
  Mute = {}
  FailureThreshold = 1
  Cooldown = 1
  EscalationThreshold = 1
  KeyTTL = 20
  Faults = {}
  MaxChecks = 2
  MaxTime = 2
INVARIANTS
  NoDuplicateDown
