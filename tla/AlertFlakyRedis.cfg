\* One check at a time; the site is deleted and added again, Redis comes and
\* goes, and its keys expire.
SPECIFICATION SiteSpec
CONSTANTS
  Procs = {p1}
  Channels = {email}
  Mute = {}
  FailureThreshold = 1
  Cooldown = 1
  EscalationThreshold = 1
  KeyTTL = 2
  Faults = {"redis"}
  MaxChecks = 4
  MaxTime = 3
  MaxUnderway = 1
INVARIANTS
  IncidentStory
  OutagesDoNotOverlap
