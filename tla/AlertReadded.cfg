\* Violation: nothing fails, but the site is deleted during an outage and
\* added again when its alert keys have expired.
SPECIFICATION SiteSpec
CONSTANTS
  Procs = {p1}
  Channels = {email}
  Mute = {}
  FailureThreshold = 1
  Cooldown = 1
  EscalationThreshold = 3
  KeyTTL = 2
  Faults = {}
  MaxChecks = 3
  MaxTime = 5
  MaxUnderway = 1
PROPERTIES
  EscalatedStillDown
