\* Two goroutines under fair scheduling; email has no recipient, and sends to
\* Slack may fail.
SPECIFICATION FairSpec
CONSTANTS
  Procs = {p1, p2}
  Channels = {email, slack}
  Mute = {email}
  FailureThreshold = 1
  Cooldown = 1
  EscalationThreshold = 1
  KeyTTL = 20
  Faults = {"send"}
  MaxChecks = 3
  MaxTime = 1
PROPERTIES
  RecoveryCompletes
