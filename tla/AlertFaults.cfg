\* Two goroutines; Redis, PostgreSQL, the notifiers and the process may fail.
SPECIFICATION Spec
CONSTANTS
  Procs = {p1, p2}
  Channels = {email}
  Mute = {}
  FailureThreshold = 2
  Cooldown = 1
  EscalationThreshold = 1
  KeyTTL = 1
  Faults = {"redis", "db", "send", "crash"}
  MaxChecks = 3
  MaxTime = 2
SYMMETRY Symmetry
INVARIANTS
  TypeOK
  NoEarlyAlarm
  EscalationFollowsAlert
PROPERTIES
  ResolvedIsFinal
