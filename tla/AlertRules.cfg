\* One check at a time and nothing fails: the rules of alertmanager.go:35-40.
SPECIFICATION Spec
CONSTANTS
  Procs = {p1}
  Channels = {email}
  Mute = {}
  FailureThreshold = 2
  Cooldown = 2
  EscalationThreshold = 3
  KeyTTL = 20
  Faults = {}
  MaxChecks = 6
  MaxTime = 8
  DefaultLimit = 1
  MaxLimit = 2
  Asked = {0, 1, 2, 3}
  TickSeconds = 2400
  Delays = {0, 59, 60}
INVARIANTS
  OpenOutageIsShown
  
PROPERTIES
  PolicyKept
  OutageIsAnnounced
  LongOutageEscalated
